---- MODULE Spec2Model ----
(***************************************************************************)
(* A model of mfsck (elks/tools/mfsck/mfsck.c), the Minix v1/v2 file       *)
(* system checker.  One behaviour is one or two runs of main() on a device *)
(* image: the globals of the program are the variables, every function of  *)
(* the checker is an operator or an action translated from its C text, and *)
(* the recursion of the traversal is an explicit stack of frames.          *)
(*                                                                         *)
(* Scaling.  A block of the modelled device holds BlockUnits units of 16   *)
(* bytes.  A unit is a record [n, name]: read as a directory entry, n is   *)
(* the 16-bit inode number and name the name that follows it; read as a    *)
(* slot of an indirect block, n is the zone number.  The images drawn in   *)
(* Init never use one zone both as a directory block and as an indirect    *)
(* block, so the two readings never meet.  The fan-out of an indirect      *)
(* block (512 in v1, 256 in v2) is BlockUnits in both variants.            *)
(***************************************************************************)
EXTENDS Integers, Sequences, FiniteSets, TLC

VARIABLES
    dev,                \* the device: superblock, bitmaps, inode table, zones
    argv,               \* the flag letters of the command line, in order
    repair, automatic, warn_mode, force,
    changed, errors_uncorrected,
    dirsize, namelen, version2,
    name_depth,
    Super,              \* super_block_buffer
    inode_map, zone_map,
    Inode,              \* inode_buffer, indexed 1..INODES
    inode_count, zone_count,
    pc,                 \* where main() is
    stack,              \* frames of check_zones / add_zone_*ind / recursive_check / check_file
    retcode,            \* exit status once the process has ended, -1 before
    writes,             \* history: every write the device accepted, in order
    asked,              \* history: ask() was called in this run
    agreed,             \* history: ask() returned "yes" in this run
    refs,               \* history: directory entries get_inode resolved, per inode
    walked,             \* history: inodes whose zone array check_zones descended into
    name_use,           \* history: how many slots of name_list were read (rd), written (wr)
    run,                \* 1 in the first run on the image, 2 in the second,
                        \* 3 in the run on the same file system in its v2 layout
    v1_run,             \* history: how the v1 run ended that run 3 is compared with
    dev0                \* history: the device as it was when this run started

vars == <<dev, argv, repair, automatic, warn_mode, force, changed,
          errors_uncorrected, dirsize, namelen, version2, name_depth, Super,
          inode_map, zone_map, Inode, inode_count, zone_count, pc, stack,
          retcode, writes, asked, agreed, refs, walked, name_use, run, v1_run, dev0>>

(***************************************************************************)
(* Bounds of the model.                                                    *)
(***************************************************************************)
BlockUnits == 2         \* 16-byte units in one block of the modelled device
FixInodes == 4          \* s_ninodes of the images drawn in Init
FixDataZones == 11      \* zones from FIRSTZONE on in the images drawn in Init
MaxNest == 130           \* directories nested deeper than this are not followed
MaxKeys == 3            \* characters typed at one prompt, in the properties of ask
WordBits == 16          \* bits of an unsigned int of the modelled machine

(***************************************************************************)
(* Program constants.                                                      *)
(***************************************************************************)
ROOT_INO == 1
MAX_DEPTH == 50
MINIX_VALID_FS == 1
MINIX_ERROR_FS == 2
MINIX_SUPER_MAGIC == 4991       \* 0x137F
MINIX_SUPER_MAGIC2 == 5007      \* 0x138F
MINIX2_SUPER_MAGIC == 9320      \* 0x2468
MINIX2_SUPER_MAGIC2 == 9336     \* 0x2478

UNIT == 16               \* bytes of the shortest directory entry
BLOCK_SIZE == UNIT * BlockUnits
Fanout == BlockUnits

UPPER(size, n) == (size + (n - 1)) \div n

\* sys/stat.h file types: the type is bits 12..15 of i_mode
S_IFDIR == 4 * 4096
S_IFREG == 8 * 4096
S_ISDIR(mode) == (mode \div 4096) % 16 = 4
S_ISREG(mode) == (mode \div 4096) % 16 = 8
S_ISLNK(mode) == (mode \div 4096) % 16 = 10
\* one of the file types get_inode tells apart: fifo, character device,
\* directory, block device, regular file, symbolic link, socket
KnownType(mode) == (mode \div 4096) % 16 \in {1, 2, 4, 6, 8, 10, 12}

\* x & flag != 0, x | flag, x & ~flag for a one-bit flag
HasFlag(x, flag) == (x \div flag) % 2 = 1
OrFlag(x, flag) == IF HasFlag(x, flag) THEN x ELSE x + flag
ClrFlag(x, flag) == IF HasFlag(x, flag) THEN x - flag ELSE x

(***************************************************************************)
(* Geometry macros, over the in-memory superblock.                         *)
(***************************************************************************)
SbZones(sb, v2) == IF v2 THEN sb.s_zones ELSE sb.s_nzones
INODES == Super.s_ninodes
ZONES == SbZones(Super, version2)
IMAPS == Super.s_imap_blocks
ZMAPS == Super.s_zmap_blocks
FIRSTZONE == Super.s_firstdatazone
INODE_BLOCKS == UPPER(INODES, IF version2 THEN 16 ELSE 32)
NORM_FIRSTZONE == 2 + IMAPS + ZMAPS + INODE_BLOCKS

ZeroCell == [n |-> 0, name |-> ""]
ZeroBlock == [u \in 0..(BlockUnits - 1) |-> ZeroCell]

(***************************************************************************)
(* The images the runs start from: a consistent file system                *)
(*     /            inode 1: ".", "..", "a" -> 2, and a deleted slot "c"   *)
(*     /a           inode 2: ".", "..", "b" -> 3                           *)
(*     /a/b         inode 3: a regular file, one direct zone and a single  *)
(*                  indirect block with one zone in it                     *)
(* with one fault of the list Faults planted in it.                        *)
(***************************************************************************)
IsV2Magic(magic) == magic \in {MINIX2_SUPER_MAGIC, MINIX2_SUPER_MAGIC2}
StrideOf(magic) == IF magic \in {MINIX_SUPER_MAGIC2, MINIX2_SUPER_MAGIC2} THEN 32 ELSE 16
FixFirstZone == 2 + 1 + 1 + 1
FixZones == FixFirstZone + FixDataZones
RootZ == FixFirstZone               \* up to 4 blocks of /
SubZ == FixFirstZone + 4            \* up to 3 blocks of /a
FileZ == FixFirstZone + 7           \* the direct zone of /a/b
IndZ == FixFirstZone + 8            \* its single indirect block
LeafZ == FixFirstZone + 9           \* the zone the indirect block names
FreeZ == FixFirstZone + 10          \* a free zone

RootEntries == << [n |-> 1, name |-> "."], [n |-> 1, name |-> ".."],
                  [n |-> 2, name |-> "a"], [n |-> 0, name |-> "c"] >>
SubEntries == << [n |-> 2, name |-> "."], [n |-> 1, name |-> ".."],
                 [n |-> 3, name |-> "b"] >>

DirBlocks(entries, stride) == UPPER(Len(entries) * stride, BLOCK_SIZE)

\* block b of a directory holding `entries` at the given stride
DirBlock(entries, stride, b) ==
    [u \in 0..(BlockUnits - 1) |->
        LET off == b * BLOCK_SIZE + u * UNIT
        IN  IF off % stride = 0 /\ off \div stride < Len(entries)
            THEN entries[(off \div stride) + 1]
            ELSE ZeroCell]

NSlots(v2) == IF v2 THEN 10 ELSE 9
NoZones(v2) == [k \in 0..(NSlots(v2) - 1) |-> 0]
DirZoneArray(v2, first, nblocks) ==
    [k \in 0..(NSlots(v2) - 1) |-> IF k < nblocks THEN first + k ELSE 0]

BaseImage(magic, state) ==
    LET v2 == IsV2Magic(magic)
        stride == StrideOf(magic)
        nroot == DirBlocks(RootEntries, stride)
        nsub == DirBlocks(SubEntries, stride)
        used == (RootZ..(RootZ + nroot - 1)) \cup (SubZ..(SubZ + nsub - 1))
                    \cup {FileZ, IndZ, LeafZ}
    IN  [ super |-> [ s_ninodes |-> FixInodes, s_nzones |-> FixZones,
                      s_imap_blocks |-> 1, s_zmap_blocks |-> 1,
                      s_firstdatazone |-> FixFirstZone, s_log_zone_size |-> 0,
                      s_magic |-> magic, s_state |-> state,
                      s_zones |-> FixZones ],
          imap |-> [i \in 0..FixInodes |-> IF i <= 3 THEN 1 ELSE 0],
          zmap |-> [b \in 0..FixDataZones |->
                        IF b = 0 \/ (FixFirstZone + b - 1) \in used THEN 1 ELSE 0],
          inodes |-> [i \in 1..FixInodes |->
              CASE i = 1 -> [ i_mode |-> S_IFDIR, i_nlinks |-> 3,
                              i_size |-> Len(RootEntries) * stride,
                              i_zone |-> DirZoneArray(v2, RootZ, nroot) ]
                [] i = 2 -> [ i_mode |-> S_IFDIR, i_nlinks |-> 2,
                              i_size |-> Len(SubEntries) * stride,
                              i_zone |-> DirZoneArray(v2, SubZ, nsub) ]
                [] i = 3 -> [ i_mode |-> S_IFREG, i_nlinks |-> 1,
                              i_size |-> 8 * BLOCK_SIZE,
                              i_zone |-> [NoZones(v2) EXCEPT ![0] = FileZ, ![7] = IndZ] ]
                [] OTHER -> [ i_mode |-> 0, i_nlinks |-> 0, i_size |-> 0,
                              i_zone |-> NoZones(v2) ] ],
          zones |-> [z \in FixFirstZone..(FixZones - 1) |->
              CASE z \in RootZ..(RootZ + nroot - 1) ->
                        DirBlock(RootEntries, stride, z - RootZ)
                [] z \in SubZ..(SubZ + nsub - 1) ->
                        DirBlock(SubEntries, stride, z - SubZ)
                [] z = IndZ -> [ZeroBlock EXCEPT ![0] = [n |-> LeafZ, name |-> ""]]
                [] OTHER -> ZeroBlock ],
          bad |-> {} ]

\* the unit of entry e of the directory inode `dir` of image img
EntryZone(img, dir, e) ==
    img.inodes[dir].i_zone[(e * StrideOf(img.super.s_magic)) \div BLOCK_SIZE]
EntryUnit(img, e) == ((e * StrideOf(img.super.s_magic)) % BLOCK_SIZE) \div UNIT
SetEntry(img, dir, e, cell) ==
    [img EXCEPT !.zones[EntryZone(img, dir, e)][EntryUnit(img, e)] = cell]

Faults ==
    { "none", "hardlink", "dind",
      "zone_lo", "zone_hi", "dir_zone_hi", "ind_zone_hi",
      "bad_ino", "dup_zone", "dup_self", "ind_dup",
      "zbit_clear", "zbit_set", "ibit_clear", "ibit_set", "orphan",
      "nlinks", "mode_uncleared",
      "no_dot", "root_no_dot", "dot_gone", "no_dotdot", "root_no_dotdot",
      "small_dir",
      "loop_self", "loop_up", "wrong_parent",
      "root_not_dir", "bad_magic", "zonesize", "imaps0", "zmaps0",
      "bad_free", "bad_ind" }

Plant(img, f) ==
    CASE f = "none" -> img
      [] f = "hardlink" ->          \* a second name for /a/b, link count right
            [SetEntry(img, 1, 3, [n |-> 3, name |-> "c"])
                EXCEPT !.inodes[3].i_nlinks = 2]
      [] f = "dind" ->              \* /a/b with a double indirect block, no fault
            [img EXCEPT !.inodes[3].i_zone[8] = RootZ + 2,
                        !.zones[RootZ + 2][0].n = RootZ + 3,
                        !.zones[RootZ + 3][1].n = FreeZ,
                        !.zmap[RootZ + 2 - FixFirstZone + 1] = 1,
                        !.zmap[RootZ + 3 - FixFirstZone + 1] = 1,
                        !.zmap[FreeZ - FixFirstZone + 1] = 1]
      [] f = "zone_lo" -> [img EXCEPT !.inodes[3].i_zone[1] = 2]
      [] f = "zone_hi" -> [img EXCEPT !.inodes[3].i_zone[1] = FixZones]
      [] f = "dir_zone_hi" -> [img EXCEPT !.inodes[1].i_zone[6] = FixZones + 1]
      [] f = "ind_zone_hi" -> [img EXCEPT !.zones[IndZ][1].n = FixZones]
      [] f = "bad_ino" -> SetEntry(img, 1, 3, [n |-> FixInodes + 1, name |-> "c"])
      [] f = "dup_zone" -> [img EXCEPT !.inodes[3].i_zone[1] = SubZ]
      [] f = "dup_self" -> [img EXCEPT !.inodes[3].i_zone[1] = FileZ]
      [] f = "ind_dup" -> [img EXCEPT !.zones[IndZ][1].n = FileZ]
      [] f = "zbit_clear" -> [img EXCEPT !.zmap[FileZ - FixFirstZone + 1] = 0]
      [] f = "zbit_set" -> [img EXCEPT !.zmap[FreeZ - FixFirstZone + 1] = 1]
      [] f = "ibit_clear" -> [img EXCEPT !.imap[3] = 0]
      [] f = "ibit_set" -> [img EXCEPT !.imap[4] = 1]
      [] f = "orphan" -> [img EXCEPT !.imap[4] = 1,
                                     !.inodes[4].i_mode = S_IFREG,
                                     !.inodes[4].i_nlinks = 1]
      [] f = "nlinks" -> [img EXCEPT !.inodes[3].i_nlinks = 3]
      [] f = "mode_uncleared" -> [img EXCEPT !.inodes[4].i_mode = S_IFREG]
      [] f = "no_dot" -> SetEntry(img, 2, 0, [n |-> 2, name |-> "x"])
      [] f = "root_no_dot" -> SetEntry(img, 1, 0, [n |-> 1, name |-> "x"])
      [] f = "dot_gone" -> SetEntry(img, 2, 0, [n |-> 0, name |-> "."])
      [] f = "no_dotdot" -> SetEntry(img, 2, 1, [n |-> 0, name |-> ".."])
      [] f = "root_no_dotdot" -> SetEntry(img, 1, 1, [n |-> 0, name |-> "x"])
      [] f = "loop_self" -> SetEntry(img, 2, 2, [n |-> 2, name |-> "b"])
      [] f = "loop_up" -> SetEntry(img, 2, 2, [n |-> 1, name |-> "b"])
      [] f = "wrong_parent" ->      \* a directory /d, which /a names as its ".."
            [SetEntry(SetEntry(img, 1, 3, [n |-> 4, name |-> "d"]),
                      2, 1, [n |-> 4, name |-> ".."])
                EXCEPT !.inodes[4] = [ i_mode |-> S_IFDIR, i_nlinks |-> 3,
                                       i_size |-> 2 * StrideOf(img.super.s_magic),
                                       i_zone |-> [@.i_zone EXCEPT ![0] = FreeZ] ],
                       !.zones[FreeZ] =
                            DirBlock(<< [n |-> 4, name |-> "."],
                                        [n |-> 1, name |-> ".."] >>,
                                     StrideOf(img.super.s_magic), 0),
                       !.inodes[1].i_nlinks = 3,
                       !.imap[4] = 1,
                       !.zmap[FreeZ - FixFirstZone + 1] = 1]
      [] f = "small_dir" -> [img EXCEPT !.inodes[2].i_size = StrideOf(img.super.s_magic)]
      [] f = "root_not_dir" -> [img EXCEPT !.inodes[1].i_mode = S_IFREG]
      [] f = "bad_magic" -> [img EXCEPT !.super.s_magic = 1]
      [] f = "zonesize" -> [img EXCEPT !.super.s_log_zone_size = 1]
      [] f = "imaps0" -> [img EXCEPT !.super.s_imap_blocks = 0]
      [] f = "zmaps0" -> [img EXCEPT !.super.s_zmap_blocks = 0]
      [] f = "bad_free" ->          \* an unreadable zone kept out of use by its bit
            [img EXCEPT !.zmap[FreeZ - FixFirstZone + 1] = 1, !.bad = {FreeZ}]
      [] f = "bad_ind" -> [img EXCEPT !.bad = {IndZ}]

\* the 30-character-name magics carry the fault-free image only
Fixtures ==
    { Plant(BaseImage(magic, st), f) :
        magic \in {MINIX_SUPER_MAGIC, MINIX2_SUPER_MAGIC},
        st \in {0, MINIX_VALID_FS, MINIX_VALID_FS + MINIX_ERROR_FS},
        f \in Faults \ {"root_no_dot", "root_no_dotdot", "wrong_parent"} }
    \cup { BaseImage(magic, MINIX_VALID_FS) :
            magic \in {MINIX_SUPER_MAGIC2, MINIX2_SUPER_MAGIC2} }
    \cup { BaseImage(magic, 4 + MINIX_ERROR_FS) :     \* a state bit mfsck knows not
            magic \in {MINIX_SUPER_MAGIC, MINIX2_SUPER_MAGIC} }

\* images whose root is entered a second time: every zone of the root is
\* then asked about, and these are run without a terminal only
RootAgain ==
    { Plant(BaseImage(magic, MINIX_VALID_FS), "root_no_dot") :
        magic \in {MINIX_SUPER_MAGIC, MINIX2_SUPER_MAGIC} }
QuietBundles == { <<>>, <<"a">> }

\* images in which a directory is named as ".." before its own entry is met
WrongParent ==
    { Plant(BaseImage(magic, MINIX_VALID_FS), "wrong_parent") :
        magic \in {MINIX_SUPER_MAGIC, MINIX2_SUPER_MAGIC} }

\* images without the name ".." in the root, one for each magic
NoDotDot ==
    { Plant(BaseImage(magic, MINIX_VALID_FS), "root_no_dotdot") :
        magic \in {MINIX_SUPER_MAGIC, MINIX_SUPER_MAGIC2,
                   MINIX2_SUPER_MAGIC, MINIX2_SUPER_MAGIC2} }

\* the flag bundles of the command lines
ArgBundles ==
    { <<>>, <<"f">>, <<"m">>, <<"a">>, <<"r">>, <<"a", "m">>, <<"r", "m">>,
      <<"a", "f">>, <<"a", "r">>, <<"r", "a">>, <<"m", "f">> }

(***************************************************************************)
(* The state the checking functions work on, as one record, so that a      *)
(* function of the C text is an operator from one such record to the set   *)
(* of records it can leave (one per answer the operator may give).         *)
(***************************************************************************)
St == [ Inode |-> Inode, inode_map |-> inode_map, zone_map |-> zone_map,
        inode_count |-> inode_count, zone_count |-> zone_count,
        changed |-> changed, errors_uncorrected |-> errors_uncorrected,
        dev |-> dev, writes |-> writes, asked |-> asked, agreed |-> agreed,
        refs |-> refs, name_depth |-> name_depth, name_use |-> name_use ]

Install(m) ==
    /\ Inode' = m.Inode
    /\ inode_map' = m.inode_map
    /\ zone_map' = m.zone_map
    /\ inode_count' = m.inode_count
    /\ zone_count' = m.zone_count
    /\ changed' = m.changed
    /\ errors_uncorrected' = m.errors_uncorrected
    /\ dev' = m.dev
    /\ writes' = m.writes
    /\ asked' = m.asked
    /\ agreed' = m.agreed
    /\ refs' = m.refs
    /\ name_use' = m.name_use

\* unmark_zone() that only records the change
unmark_zoneKeepsBit(m, x) == [m EXCEPT !.changed = TRUE]

bit(map, i) == map[i]
inode_in_use(m, x) == bit(m.inode_map, x) # 0
zone_in_use(m, x) == bit(m.zone_map, x - FIRSTZONE + 1) # 0
mark_inode(m, x) == [m EXCEPT !.inode_map[x] = 1, !.changed = TRUE]
unmark_inode(m, x) == [m EXCEPT !.inode_map[x] = 0, !.changed = TRUE]
mark_zone(m, x) == [m EXCEPT !.zone_map[x - FIRSTZONE + 1] = 1, !.changed = TRUE]
unmark_zone(m, x) == [m EXCEPT !.zone_map[x - FIRSTZONE + 1] = 0, !.changed = TRUE]

(***************************************************************************)
(* ask(string, def).  AskKeys is the interactive loop over the characters  *)
(* typed ("EOF" for end of input): the value returned and whether          *)
(* errors_uncorrected is set on the way.                                   *)
(***************************************************************************)
\* the loop of ask() without the errors_uncorrected = 1 of its "n" branch
RECURSIVE AskKeysQuietNo(_, _)
AskKeysQuietNo(def, keys) ==
    IF keys = <<>> \/ Head(keys) = "EOF"
    THEN [ret |-> def, err |-> ~def]
    ELSE CASE Head(keys) \in {"Y", "y"} -> [ret |-> TRUE, err |-> FALSE]
           [] Head(keys) \in {"N", "n"} -> [ret |-> FALSE, err |-> FALSE]
           [] Head(keys) \in {" ", "\n"} -> [ret |-> def, err |-> ~def]
           [] OTHER -> AskKeysQuietNo(def, Tail(keys))

RECURSIVE AskKeys(_, _)
AskKeys(def, keys) ==
    IF keys = <<>> \/ Head(keys) = "EOF"
    THEN [ret |-> def, err |-> ~def]
    ELSE CASE Head(keys) \in {"Y", "y"} -> [ret |-> TRUE, err |-> FALSE]
           [] Head(keys) \in {"N", "n"} -> [ret |-> FALSE, err |-> TRUE]
           [] Head(keys) \in {" ", "\n"} -> [ret |-> def, err |-> ~def]
           [] OTHER -> AskKeys(def, Tail(keys))

\* what the operator types at one prompt
Typed == { <<"y">>, <<"N">>, <<"\n">>, <<"x", "n">>, <<"EOF">> }

\* ask() without its read-only branch: the property of read-only runs rests
\* on the branch
AskOutcomesNoReadOnly(def) ==
    IF automatic THEN { [ret |-> def, err |-> ~def] }
    ELSE { AskKeys(def, keys) : keys \in Typed }

AskOutcomes(def) ==
    IF ~repair THEN { [ret |-> FALSE, err |-> TRUE] }
    ELSE IF automatic THEN { [ret |-> def, err |-> ~def] }
    ELSE { AskKeys(def, keys) : keys \in Typed }

\* ask() raising errors_uncorrected whatever the answer
askFlagsEveryAnswer(m, def) ==
    { [ m |-> [m EXCEPT !.errors_uncorrected = TRUE, !.asked = TRUE,
                        !.agreed = @ \/ o.ret],
        ans |-> o.ret ] : o \in AskOutcomes(def) }

\* ask() leaving errors_uncorrected alone when the answer is no
askNeverFlags(m, def) ==
    { [ m |-> [m EXCEPT !.asked = TRUE, !.agreed = @ \/ o.ret],
        ans |-> o.ret ] : o \in AskOutcomes(def) }

ask(m, def) ==
    { [ m |-> [m EXCEPT !.errors_uncorrected = @ \/ o.err, !.asked = TRUE,
                        !.agreed = @ \/ o.ret],
        ans |-> o.ret ] : o \in AskOutcomes(def) }

(***************************************************************************)
(* Block I/O on zones.                                                     *)
(***************************************************************************)
Readable(d, nr) == nr \in DOMAIN d.zones /\ nr \notin d.bad

\* get_current_name(): name_list[0] .. name_list[name_depth - 1] are read
get_current_name(m) ==
    [m EXCEPT !.name_use.rd = IF m.name_depth > @ THEN m.name_depth ELSE @]

\* if (name_depth < MAX_DEPTH) strncpy(name_list[name_depth], name, namelen)
PushName(m) ==
    IF m.name_depth < MAX_DEPTH
    THEN [m EXCEPT !.name_use.wr = IF m.name_depth + 1 > @ THEN m.name_depth + 1 ELSE @]
    ELSE m

read_block(m, nr) ==
    IF nr = 0 THEN [m |-> m, blk |-> ZeroBlock]
    ELSE IF Readable(m.dev, nr) THEN [m |-> m, blk |-> m.dev.zones[nr]]
    ELSE [m |-> [get_current_name(m) EXCEPT !.errors_uncorrected = TRUE],
          blk |-> ZeroBlock]

write_block(m, nr, blk) ==
    IF nr = 0 THEN m
    ELSE IF nr < FIRSTZONE \/ nr >= ZONES
         THEN [m EXCEPT !.errors_uncorrected = TRUE]
    ELSE IF repair /\ Readable(m.dev, nr)
         THEN [m EXCEPT !.dev.zones[nr] = blk,
                        !.writes = Append(@, [what |-> "zone", nr |-> nr])]
    ELSE [get_current_name(m) EXCEPT !.errors_uncorrected = TRUE]

(***************************************************************************)
(* check_zone_nr(nr, corrected) and add_zone(znr, corrected): the result   *)
(* carries the value left in *nr and whether *corrected was set.  The v2   *)
(* twins check_zone_nr2 and add_zone2 have the same text.                  *)
(***************************************************************************)
\* check_zone_nr() without its test against ZONES
check_zone_nrNoUpper(m, nr) ==
    IF nr = 0
    THEN { [m |-> m, nr |-> nr, corrected |-> FALSE, ret |-> 0] }
    ELSE IF ~(nr < FIRSTZONE)
    THEN { [m |-> m, nr |-> nr, corrected |-> FALSE, ret |-> nr] }
    ELSE { IF a.ans
           THEN [m |-> a.m, nr |-> 0, corrected |-> TRUE, ret |-> 0]
           ELSE [m |-> a.m, nr |-> nr, corrected |-> FALSE, ret |-> 0]
           : a \in ask(get_current_name(m), TRUE) }

check_zone_nr(m, nr) ==
    IF nr = 0
    THEN { [m |-> m, nr |-> nr, corrected |-> FALSE, ret |-> 0] }
    ELSE IF ~(nr < FIRSTZONE) /\ ~(nr >= ZONES)
    THEN { [m |-> m, nr |-> nr, corrected |-> FALSE, ret |-> nr] }
    ELSE { IF a.ans
           THEN [m |-> a.m, nr |-> 0, corrected |-> TRUE, ret |-> 0]
           ELSE [m |-> a.m, nr |-> nr, corrected |-> FALSE, ret |-> 0]
           : a \in ask(get_current_name(m), TRUE) }

\* ++count on an unsigned char, left at 0 when it wrapped
Incr8Wraps(c) == (c + 1) % 256

\* ++count on an unsigned char, taken back when it wrapped to 0
Incr8(c) == IF (c + 1) % 256 = 0 THEN (((c + 1) % 256) - 1) % 256 ELSE (c + 1) % 256

\* add_zone without the count of the zone it was given
AddZoneCountForgets(m, block) == m

AddZoneCount(m, block) ==
    [m EXCEPT !.zone_count[block] = Incr8(@)]

AddZoneInUse(m, block) ==
    IF ~zone_in_use(m, block)
    THEN { IF a.ans THEN mark_zone(a.m, block) ELSE a.m
           : a \in ask(get_current_name(m), TRUE) }
    ELSE { m }

AddZoneUsedBefore(c) ==
    IF c.m.zone_count[c.ret] # 0
    THEN { IF a.ans
           THEN [m |-> a.m, nr |-> 0, corrected |-> TRUE, ret |-> 0]
           ELSE [c EXCEPT !.m = a.m]
           : a \in ask(get_current_name(c.m), TRUE) }
    ELSE { c }

add_zone(m, znr) ==
    UNION { IF c.ret = 0 THEN { c }
            ELSE UNION { IF d.ret = 0 THEN { d }
                         ELSE { [d EXCEPT !.m = AddZoneCount(m2, d.ret)]
                                : m2 \in AddZoneInUse(d.m, d.ret) }
                         : d \in AddZoneUsedBefore(c) }
            : c \in check_zone_nr(m, znr) }

(***************************************************************************)
(* map_block / map_block2: the zone of block blknr of inode ino.  F stands *)
(* where the C text has the fan-out (512, 256).                            *)
(***************************************************************************)
\* check_zone_nr(inode->i_zone + k, &changed)
MapInodeZone(m, ino, k) ==
    { [ m |-> [c.m EXCEPT !.Inode[ino].i_zone[k] = c.nr,
                          !.changed = @ \/ c.corrected],
        ret |-> c.ret ] : c \in check_zone_nr(m, m.Inode[ino].i_zone[k]) }

\* read_block(block, ind); blk_chg = 0; result = check_zone_nr(ind + idx,
\* &blk_chg); if (blk_chg) write_block(block, ind).  An idx past the end of
\* ind reads and writes whatever lies behind the array: any value may be
\* found there, and the array that is written back is as it was read.
MapIndirect(m, block, idx) ==
    LET r == read_block(m, block)
        inside == idx \in DOMAIN r.blk
        found == IF inside THEN { r.blk[idx].n } ELSE 0..ZONES
    IN  UNION { { [ m |-> IF c.corrected
                          THEN write_block(c.m, block,
                                    IF inside THEN [r.blk EXCEPT ![idx].n = c.nr]
                                    ELSE r.blk)
                          ELSE c.m,
                    ret |-> c.ret ] : c \in check_zone_nr(r.m, nr) }
                : nr \in found }

MapThrough(S, idx) == UNION { MapIndirect(b.m, b.ret, idx) : b \in S }

map_block(m, ino, blknr, F) ==
    IF blknr < 7 THEN MapInodeZone(m, ino, blknr)
    ELSE IF blknr - 7 < F
    THEN MapThrough(MapInodeZone(m, ino, 7), blknr - 7)
    ELSE MapThrough(MapThrough(MapInodeZone(m, ino, 8), (blknr - 7 - F) \div F),
                    (blknr - 7 - F) % F)

\* arithmetic on unsigned int
UInt(x) == x % (2 ^ WordBits)

\* the slot of i_zone and the indexes into the indirect blocks behind it
\* that map_block2 uses for block blknr
Route2(blknr, F) ==
    IF blknr < 7 THEN [slot |-> blknr, path |-> << >>]
    ELSE IF UInt(blknr - 7) < F THEN [slot |-> 7, path |-> << UInt(blknr - 7) >>]
    ELSE LET b == UInt(blknr - 7 - F)
         IN  IF b >= F * F
             THEN [slot |-> 8, path |-> << b \div F, b % F >>]
             ELSE LET n == UInt(b - F * F)
                  IN  [slot |-> 9,
                       path |-> << n \div (F * F), (n \div F) % F, n % F >>]

map_block2(m, ino, blknr, F) ==
    LET r == Route2(blknr, F)
        top == MapInodeZone(m, ino, r.slot)
    IN  CASE Len(r.path) = 0 -> top
          [] Len(r.path) = 1 -> MapThrough(top, r.path[1])
          [] Len(r.path) = 2 -> MapThrough(MapThrough(top, r.path[1]), r.path[2])
          [] OTHER -> MapThrough(MapThrough(MapThrough(top, r.path[1]), r.path[2]),
                                 r.path[3])

(***************************************************************************)
(* get_inode / get_inode2.  ret is the inode number, 0 for NULL.           *)
(***************************************************************************)
GetInodeCount(m, nr) ==
    LET c == (m.inode_count[nr] + 1) % 256
    IN  IF c = 0
        THEN [m EXCEPT !.inode_count[nr] = (c - 1) % 256,
                       !.errors_uncorrected = TRUE,
                       !.refs[nr] = @ + 1]
        ELSE [m EXCEPT !.inode_count[nr] = c, !.refs[nr] = @ + 1]

\* the first reference to an inode of a type get_inode does not know: the
\* message with the path
GetInodeMode(m, nr) ==
    IF m.inode_count[nr] = 0 /\ ~KnownType(m.Inode[nr].i_mode)
    THEN get_current_name(m)
    ELSE m

get_inode(m, nr) ==
    IF nr = 0 \/ nr > INODES THEN { [m |-> m, ret |-> 0] }
    ELSE LET seen ==
                IF m.inode_count[nr] = 0 /\ ~inode_in_use(m, nr)
                THEN IF repair
                     THEN { IF a.ans THEN mark_inode(a.m, nr) ELSE a.m
                            : a \in ask(get_current_name(m), TRUE) }
                     ELSE { [get_current_name(m) EXCEPT !.errors_uncorrected = TRUE] }
                ELSE { m }
         IN  { [m |-> GetInodeCount(GetInodeMode(m1, nr), nr), ret |-> nr]
               : m1 \in seen }

\* get_inode2 with its `else errors_uncorrected = 1` taken out of the
\* question: raised whenever the bit is clear in a repairing run
get_inode2FlagsMarked(m, nr) ==
    IF nr = 0 \/ nr > INODES THEN { [m |-> m, ret |-> 0] }
    ELSE LET seen ==
                IF m.inode_count[nr] = 0 /\ ~inode_in_use(m, nr)
                THEN IF repair
                     THEN { [ (IF a.ans THEN mark_inode(a.m, nr) ELSE a.m)
                              EXCEPT !.errors_uncorrected = TRUE ]
                            : a \in ask(get_current_name(m), TRUE) }
                     ELSE { get_current_name(m) }
                ELSE { m }
         IN  { [m |-> GetInodeCount(GetInodeMode(m1, nr), nr), ret |-> nr]
               : m1 \in seen }

get_inode2(m, nr) ==
    IF nr = 0 \/ nr > INODES THEN { [m |-> m, ret |-> 0] }
    ELSE LET seen ==
                IF m.inode_count[nr] = 0 /\ ~inode_in_use(m, nr)
                THEN IF repair
                     THEN { IF a.ans THEN mark_inode(a.m, nr)
                            ELSE [a.m EXCEPT !.errors_uncorrected = TRUE]
                            : a \in ask(get_current_name(m), TRUE) }
                     ELSE { get_current_name(m) }
                ELSE { m }
         IN  { [m |-> GetInodeCount(GetInodeMode(m1, nr), nr), ret |-> nr]
               : m1 \in seen }

(***************************************************************************)
(* check_file / check_file2 up to the call of check_zones: the entry is    *)
(* read, a bad inode number removed, the inode fetched and the "." / ".."  *)
(* slots judged.  go tells whether the function goes on to check_zones.    *)
(***************************************************************************)
CheckFileRemove(m, block, blk, u) ==
    IF blk[u].n > INODES
    THEN { [ m |-> IF a.ans
                   THEN write_block(a.m, block, [blk EXCEPT ![u].n = 0])
                   ELSE a.m,
             ino |-> 0 ] : a \in ask(get_current_name(m), TRUE) }
    ELSE { [m |-> m, ino |-> blk[u].n] }

CheckFileDots(m, offset, inode, name) ==
    LET dot == offset = 0 /\ (inode = 0 \/ name # ".")
        dotdot == offset = dirsize /\ (inode = 0 \/ name # "..")
        done == \/ offset = 0 /\ ~dot
                \/ offset = dirsize /\ ~dotdot
                \/ inode = 0
    IN  [ m |-> IF dot \/ dotdot
                THEN [get_current_name(m) EXCEPT !.errors_uncorrected = TRUE]
                ELSE m,
          go |-> ~done ]

\* name_depth++ and name_depth-- around the call of get_inode
Deeper(m) == [m EXCEPT !.name_depth = @ + 1]
Shallower(m) == [m EXCEPT !.name_depth = @ - 1]

CheckFileHead(m, dir, offset) ==
    UNION { LET r == read_block(b.m, b.ret)
                u == (offset % BLOCK_SIZE) \div UNIT
                name == r.blk[u].name
            IN  UNION { { LET d == CheckFileDots(Shallower(g.m), offset, g.ret, name)
                          IN  [m |-> d.m, go |-> d.go, ino |-> e.ino]
                          : g \in IF version2
                                  THEN get_inode2(Deeper(PushName(e.m)), e.ino)
                                  ELSE get_inode(Deeper(PushName(e.m)), e.ino) }
                        : e \in CheckFileRemove(r.m, b.ret, r.blk, u) }
            : b \in IF version2 THEN map_block2(m, dir, offset \div BLOCK_SIZE, Fanout)
                    ELSE map_block(m, dir, offset \div BLOCK_SIZE, Fanout) }

(***************************************************************************)
(* check_counts / check_counts2 (same text): the body of the inode loop    *)
(* and the body of the zone loop.                                          *)
(***************************************************************************)
CountsMode(m, i) ==
    IF ~inode_in_use(m, i) /\ m.Inode[i].i_mode # 0 /\ warn_mode
    THEN { IF a.ans THEN [a.m EXCEPT !.Inode[i].i_mode = 0, !.changed = TRUE]
           ELSE a.m : a \in ask(m, TRUE) }
    ELSE { m }

\* the i_nlinks repair of check_counts without its changed = 1
CountsLinksUnflagged(m, i) ==
    IF m.Inode[i].i_nlinks # m.inode_count[i]
    THEN { IF a.ans
           THEN [a.m EXCEPT !.Inode[i].i_nlinks = a.m.inode_count[i]]
           ELSE a.m : a \in ask(m, TRUE) }
    ELSE { m }

CountsLinks(m, i) ==
    IF m.Inode[i].i_nlinks # m.inode_count[i]
    THEN { IF a.ans
           THEN [a.m EXCEPT !.Inode[i].i_nlinks = a.m.inode_count[i],
                            !.changed = TRUE]
           ELSE a.m : a \in ask(m, TRUE) }
    ELSE { m }

CountsInode(m0, i) ==
    UNION { IF m.inode_count[i] = 0
            THEN IF ~inode_in_use(m, i) THEN { m }
                 ELSE { IF a.ans THEN unmark_inode(a.m, i) ELSE a.m
                        : a \in ask(m, TRUE) }
            ELSE UNION { CountsLinks(m2, i)
                         : m2 \in IF ~inode_in_use(m, i)
                                  THEN { IF a.ans THEN mark_inode(a.m, i) ELSE a.m
                                         : a \in ask(m, TRUE) }
                                  ELSE { m } }
            : m \in CountsMode(m0, i) }

\* bad_zone(i): the zone cannot be read
bad_zone(m, i) == ~Readable(m.dev, i)

CountsZone(m, i) ==
    IF (IF zone_in_use(m, i) THEN 1 ELSE 0) = m.zone_count[i] THEN { m }
    ELSE IF m.zone_count[i] = 0
    THEN IF bad_zone(m, i) THEN { m }
         ELSE { IF a.ans THEN unmark_zone(a.m, i) ELSE a.m : a \in ask(m, TRUE) }
    ELSE { m }

(***************************************************************************)
(* get_dirsize: the first size 16, 32, 64, ... below BLOCK_SIZE at which   *)
(* the root directory's first block holds the name "..".                   *)
(***************************************************************************)
RECURSIVE DirsizeFrom(_, _)
DirsizeFrom(blk, size) ==
    IF ~(size < BLOCK_SIZE) THEN 0
    ELSE IF blk[size \div UNIT].name = ".." THEN size
    ELSE DirsizeFrom(blk, size * 2)

\* the size found, 0 when no offset matches and the defaults stay
get_dirsize(blk) == DirsizeFrom(blk, 16)

(***************************************************************************)
(* The initial state: the statics as the C text initialises them, a device *)
(* and a command line.                                                     *)
(***************************************************************************)
NoTable == << >>

Statics ==
    /\ repair = FALSE /\ automatic = FALSE /\ warn_mode = FALSE
    /\ force = TRUE
    /\ changed = FALSE /\ errors_uncorrected = FALSE
    /\ dirsize = 16 /\ namelen = 14 /\ version2 = FALSE
    /\ name_depth = 0
    /\ Super = [ s_ninodes |-> 0, s_nzones |-> 0, s_imap_blocks |-> 0,
                 s_zmap_blocks |-> 0, s_firstdatazone |-> 0,
                 s_log_zone_size |-> 0, s_magic |-> 0, s_state |-> 0,
                 s_zones |-> 0 ]
    /\ inode_map = NoTable /\ zone_map = NoTable /\ Inode = NoTable
    /\ inode_count = NoTable /\ zone_count = NoTable
    /\ pc = "args" /\ stack = << >> /\ retcode = -1
    /\ writes = << >> /\ asked = FALSE /\ agreed = FALSE
    /\ name_use = [rd |-> 0, wr |-> 0]
    /\ refs = NoTable /\ walked = NoTable

\* no run to compare with
NoOutcome == [changed |-> FALSE, errors_uncorrected |-> FALSE, retcode |-> -1,
              agreed |-> FALSE]

Init ==
    /\ \/ dev \in Fixtures /\ argv \in ArgBundles
       \/ dev \in RootAgain \cup NoDotDot \cup WrongParent /\ argv \in QuietBundles
    /\ Statics
    /\ run = 1
    /\ v1_run = NoOutcome
    /\ dev0 = dev

Top == stack[Len(stack)]
Pop == SubSeq(stack, 1, Len(stack) - 1)
Running(fn) == pc = "check" /\ stack # << >> /\ Top.fn = fn

\* leave(status)
Leave(status) == pc' = "exit" /\ retcode' = status /\ stack' = << >>
\* die(): the message, then leave(8)
Die == Leave(8)

(***************************************************************************)
(* main(): the option loop.                                                *)
(***************************************************************************)
RECURSIVE Options(_, _)
Options(letters, o) ==
    IF letters = << >> THEN o
    ELSE Options(Tail(letters),
            CASE Head(letters) = "a" -> [o EXCEPT !.automatic = TRUE, !.repair = TRUE]
              [] Head(letters) = "r" -> [o EXCEPT !.automatic = FALSE, !.repair = TRUE]
              [] Head(letters) = "m" -> [o EXCEPT !.warn_mode = TRUE]
              [] Head(letters) = "f" -> [o EXCEPT !.force = TRUE]
              [] OTHER -> o)

ParseArgs ==
    /\ pc = "args"
    /\ LET o == Options(argv, [ repair |-> repair, automatic |-> automatic,
                                warn_mode |-> warn_mode, force |-> force ])
       IN  /\ repair' = o.repair
           /\ automatic' = o.automatic
           /\ warn_mode' = o.warn_mode
           /\ force' = o.force
    /\ pc' = "open"
    /\ UNCHANGED <<dev, argv, changed, errors_uncorrected, dirsize, namelen,
                   version2, name_depth, Super, inode_map, zone_map, Inode,
                   inode_count, zone_count, stack, retcode, writes, name_use, asked, agreed,
                   refs, walked, run, v1_run, dev0>>

\* main(): interactive repairs need a terminal on stdin and stdout, and the
\* device has to open (O_RDWR when repairing, O_RDONLY otherwise)
OpenDevice ==
    /\ pc = "open"
    /\ \E tty \in BOOLEAN, opened \in BOOLEAN :
          IF (repair /\ ~automatic /\ ~tty) \/ ~opened
          THEN Die
          ELSE pc' = "read_superblock" /\ UNCHANGED <<retcode, stack>>
    /\ UNCHANGED <<dev, argv, repair, automatic, warn_mode, force, changed,
                   errors_uncorrected, dirsize, namelen, version2, name_depth,
                   Super, inode_map, zone_map, Inode, inode_count, zone_count,
                   writes, name_use, asked, agreed, refs, walked, run, v1_run, dev0>>

(***************************************************************************)
(* read_superblock()                                                       *)
(***************************************************************************)
KnownMagic(magic) ==
    magic \in { MINIX_SUPER_MAGIC, MINIX_SUPER_MAGIC2,
                MINIX2_SUPER_MAGIC, MINIX2_SUPER_MAGIC2 }

\* a < b on unsigned long, b a difference that wraps when it is negative
ULess(a, b) == b < 0 \/ a < b

\* read_superblock without the test of the zone size
SuperblockOkAnyZoneSize(sb) ==
    LET v2 == IsV2Magic(sb.s_magic)
    IN  /\ KnownMagic(sb.s_magic)
        /\ ~(sb.s_imap_blocks * BLOCK_SIZE * 8 < sb.s_ninodes + 1)
        /\ ~ULess(sb.s_zmap_blocks * BLOCK_SIZE * 8,
                  SbZones(sb, v2) - sb.s_firstdatazone + 1)

SuperblockOk(sb) ==
    LET v2 == IsV2Magic(sb.s_magic)
    IN  /\ KnownMagic(sb.s_magic)
        /\ sb.s_log_zone_size = 0
        /\ ~(sb.s_imap_blocks * BLOCK_SIZE * 8 < sb.s_ninodes + 1)
        /\ ~ULess(sb.s_zmap_blocks * BLOCK_SIZE * 8,
                  SbZones(sb, v2) - sb.s_firstdatazone + 1)

read_superblock ==
    /\ pc = "read_superblock"
    /\ Super' = dev.super
    /\ IF KnownMagic(dev.super.s_magic)
       THEN /\ namelen' = StrideOf(dev.super.s_magic) - 2
            /\ dirsize' = StrideOf(dev.super.s_magic)
            /\ version2' = IsV2Magic(dev.super.s_magic)
       ELSE UNCHANGED <<namelen, dirsize, version2>>
    /\ IF SuperblockOk(dev.super)
       THEN pc' = "gate" /\ UNCHANGED <<retcode, stack>>
       ELSE Die
    /\ UNCHANGED <<dev, argv, repair, automatic, warn_mode, force, changed,
                   errors_uncorrected, name_depth, inode_map, zone_map, Inode,
                   inode_count, zone_count, writes, name_use, asked, agreed, refs, walked, run, v1_run,
                   dev0>>

(***************************************************************************)
(* main(): whether to go on with the check.                                *)
(***************************************************************************)
IsClean(state) == ~HasFlag(state, MINIX_ERROR_FS) /\ HasFlag(state, MINIX_VALID_FS)

Gate ==
    /\ pc = "gate"
    /\ IF IsClean(Super.s_state) /\ ~force
       THEN Leave(0)
       ELSE pc' = "read_tables" /\ UNCHANGED <<retcode, stack>>
    /\ UNCHANGED <<dev, argv, repair, automatic, warn_mode, force, changed,
                   errors_uncorrected, dirsize, namelen, version2, name_depth,
                   Super, inode_map, zone_map, Inode, inode_count, zone_count,
                   writes, name_use, asked, agreed, refs, walked, run, v1_run, dev0>>

(***************************************************************************)
(* read_tables(), with get_dirsize()                                       *)
(***************************************************************************)
read_tables ==
    /\ pc = "read_tables"
    /\ inode_map' = dev.imap
    /\ zone_map' = dev.zmap
    /\ Inode' = dev.inodes
    /\ inode_count' = [i \in 0..INODES |-> 0]
    /\ zone_count' = [z \in 0..(ZONES - 1) |-> 0]
    /\ refs' = [i \in 1..INODES |-> 0]
    /\ walked' = [i \in 1..INODES |-> 0]
    /\ LET block == dev.inodes[ROOT_INO].i_zone[0]
           readable == block = 0 \/ Readable(dev, block)
           blk == IF block # 0 /\ readable THEN dev.zones[block] ELSE ZeroBlock
           size == get_dirsize(blk)
       IN  /\ errors_uncorrected' =
                    (errors_uncorrected \/ NORM_FIRSTZONE # FIRSTZONE \/ ~readable)
           /\ dirsize' = IF size = 0 THEN dirsize ELSE size
           /\ namelen' = IF size = 0 THEN namelen ELSE size - 2
    /\ pc' = "check_root"
    /\ UNCHANGED <<dev, argv, repair, automatic, warn_mode, force, changed,
                   version2, name_depth, Super, stack, retcode, writes, name_use, asked, agreed,
                   run, v1_run, dev0>>

(***************************************************************************)
(* check_root() and check(): check() clears the counters and calls         *)
(* check_zones(ROOT_INO), recursive_check(ROOT_INO) and check_counts() in  *)
(* turn; the three calls are stacked, the first to run on top.             *)
(***************************************************************************)
Fixed == <<argv, repair, automatic, warn_mode, force, dirsize, namelen,
           version2, Super, run, v1_run, dev0>>

ZonesFrame(i) == [fn |-> "check_zones", i |-> i, k |-> -1]
DirFrame(ino) == [fn |-> "recursive_check", ino |-> ino, offset |-> 0, entered |-> FALSE]
CountsFrame == [fn |-> "check_counts", phase |-> "inodes", i |-> 1]
SetTop(f) == [stack EXCEPT ![Len(stack)] = f]

check_root ==
    /\ pc = "check_root"
    /\ IF ~S_ISDIR(Inode[ROOT_INO].i_mode)
       THEN Die
       ELSE pc' = "check_begin" /\ UNCHANGED <<retcode, stack>>
    /\ UNCHANGED <<Fixed, dev, changed, errors_uncorrected, name_depth,
                   inode_map, zone_map, Inode, inode_count, zone_count,
                   writes, name_use, asked, agreed, refs, walked>>

check ==
    /\ pc = "check_begin"
    /\ inode_count' = [i \in 0..INODES |-> 0]
    /\ zone_count' = [z \in 0..(ZONES - 1) |-> 0]
    /\ stack' = << CountsFrame, DirFrame(ROOT_INO), ZonesFrame(ROOT_INO) >>
    /\ pc' = "check"
    /\ UNCHANGED <<Fixed, dev, changed, errors_uncorrected, name_depth,
                   inode_map, zone_map, Inode, retcode, writes, name_use, asked, agreed, refs,
                   walked>>

(***************************************************************************)
(* check_zones / check_zones2 and the add_zone_ind, _dind, _tind walkers.  *)
(***************************************************************************)
CheckZonesSkips(i) ==
    \/ i = 0 \/ i > INODES
    \/ inode_count[i] > 1
    \/ ~S_ISDIR(Inode[i].i_mode) /\ ~S_ISREG(Inode[i].i_mode)
        /\ ~S_ISLNK(Inode[i].i_mode)

CheckZonesEnter ==
    /\ Running("check_zones") /\ Top.k = -1
    /\ IF CheckZonesSkips(Top.i)
       THEN stack' = Pop /\ UNCHANGED walked
       ELSE /\ stack' = SetTop([Top EXCEPT !.k = 0])
            /\ walked' = [walked EXCEPT ![Top.i] = @ + 1]
    /\ UNCHANGED <<Fixed, dev, changed, errors_uncorrected, name_depth,
                   inode_map, zone_map, Inode, inode_count, zone_count, pc,
                   retcode, writes, name_use, asked, agreed, refs>>

\* add_zone(k + inode->i_zone, &changed)
AddInodeZone(m, i, k) ==
    { [ m |-> [r.m EXCEPT !.Inode[i].i_zone[k] = r.nr,
                          !.changed = @ \/ r.corrected],
        ret |-> r.ret ] : r \in add_zone(m, m.Inode[i].i_zone[k]) }

\* the rest of add_zone_ind and its kin once add_zone has returned block:
\* nothing for block 0, else the block is read and its slots walked
IndFrame(level, block, blk) ==
    [fn |-> "add_zone_ind", level |-> level, block |-> block, blk |-> blk,
     i |-> 0, chg |-> FALSE]

Descend(r, level, under) ==
    IF r.ret = 0
    THEN Install(r.m) /\ stack' = under
    ELSE LET rb == read_block(r.m, r.ret)
         IN  Install(rb.m) /\ stack' = Append(under, IndFrame(level, r.ret, rb.blk))

CheckZonesDirect ==
    /\ Running("check_zones") /\ Top.k \in 0..6
    /\ \E r \in AddInodeZone(St, Top.i, Top.k) : Install(r.m)
    /\ stack' = SetTop([Top EXCEPT !.k = @ + 1])
    /\ UNCHANGED <<Fixed, name_depth, pc, retcode, walked>>

CheckZonesIndirect ==
    /\ Running("check_zones") /\ Top.k \in 7..(NSlots(version2) - 1)
    /\ \E r \in AddInodeZone(St, Top.i, Top.k) :
            Descend(r, Top.k - 6, SetTop([Top EXCEPT !.k = @ + 1]))
    /\ UNCHANGED <<Fixed, name_depth, pc, retcode, walked>>

CheckZonesReturn ==
    /\ Running("check_zones") /\ Top.k = NSlots(version2)
    /\ stack' = Pop
    /\ UNCHANGED <<Fixed, dev, changed, errors_uncorrected, name_depth,
                   inode_map, zone_map, Inode, inode_count, zone_count, pc,
                   retcode, writes, name_use, asked, agreed, refs, walked>>

\* one round of the loop over the slots of an indirect block
AddZoneIndStep ==
    /\ Running("add_zone_ind") /\ Top.i < Fanout
    /\ \E r \in add_zone(St, Top.blk[Top.i].n) :
          LET under == SetTop([Top EXCEPT !.blk[Top.i].n = r.nr,
                                          !.chg = @ \/ r.corrected,
                                          !.i = @ + 1])
          IN  IF Top.level = 1
              THEN Install(r.m) /\ stack' = under
              ELSE Descend(r, Top.level - 1, under)
    /\ UNCHANGED <<Fixed, name_depth, pc, retcode, walked>>

AddZoneIndReturn ==
    /\ Running("add_zone_ind") /\ Top.i = Fanout
    /\ Install(IF Top.chg THEN write_block(St, Top.block, Top.blk) ELSE St)
    /\ stack' = Pop
    /\ UNCHANGED <<Fixed, name_depth, pc, retcode, walked>>

(***************************************************************************)
(* recursive_check / recursive_check2 and check_file / check_file2.        *)
(***************************************************************************)
RecursiveCheckEnter ==
    /\ Running("recursive_check") /\ ~Top.entered
    /\ IF ~S_ISDIR(Inode[Top.ino].i_mode)
       THEN Die /\ UNCHANGED <<errors_uncorrected, name_use>>
       ELSE /\ errors_uncorrected' =
                    (errors_uncorrected \/ Inode[Top.ino].i_size < 2 * dirsize)
            /\ name_use' = IF Inode[Top.ino].i_size < 2 * dirsize
                           THEN get_current_name(St).name_use
                           ELSE name_use
            /\ stack' = SetTop([Top EXCEPT !.entered = TRUE])
            /\ UNCHANGED <<pc, retcode>>
    /\ UNCHANGED <<Fixed, dev, changed, name_depth, inode_map, zone_map, Inode,
                   inode_count, zone_count, writes, asked, agreed, refs, walked>>

\* one round of the loop of recursive_check: check_file(dir, offset) up to
\* its call of check_zones
CheckFile ==
    /\ Running("recursive_check") /\ Top.entered
    /\ Top.offset < Inode[Top.ino].i_size
    /\ \E h \in CheckFileHead(St, Top.ino, Top.offset) :
          /\ Install(h.m)
          /\ LET under == SetTop([Top EXCEPT !.offset = @ + dirsize])
             IN  IF h.go
                 THEN /\ name_depth' = name_depth + 1
                      /\ stack' = under \o << [fn |-> "check_file", ino |-> h.ino],
                                              ZonesFrame(h.ino) >>
                 ELSE /\ name_depth' = name_depth
                      /\ stack' = under
    /\ UNCHANGED <<Fixed, pc, retcode, walked>>

RecursiveCheckReturn ==
    /\ Running("recursive_check") /\ Top.entered
    /\ ~(Top.offset < Inode[Top.ino].i_size)
    /\ stack' = Pop
    /\ UNCHANGED <<Fixed, dev, changed, errors_uncorrected, name_depth,
                   inode_map, zone_map, Inode, inode_count, zone_count, pc,
                   retcode, writes, name_use, asked, agreed, refs, walked>>

\* check_file after check_zones(ino) has returned
CheckFileRecurse ==
    /\ Running("check_file")
    /\ S_ISDIR(Inode[Top.ino].i_mode)
    /\ name_depth <= MaxNest
    /\ stack' = Append(SetTop([fn |-> "check_file_end", ino |-> Top.ino]),
                       DirFrame(Top.ino))
    /\ UNCHANGED <<Fixed, dev, changed, errors_uncorrected, name_depth,
                   inode_map, zone_map, Inode, inode_count, zone_count, pc,
                   retcode, writes, name_use, asked, agreed, refs, walked>>

CheckFileReturn ==
    /\ \/ Running("check_file_end")
       \/ Running("check_file") /\ ~S_ISDIR(Inode[Top.ino].i_mode)
    /\ name_depth' = name_depth - 1
    /\ stack' = Pop
    /\ UNCHANGED <<Fixed, dev, changed, errors_uncorrected, inode_map,
                   zone_map, Inode, inode_count, zone_count, pc, retcode,
                   writes, name_use, asked, agreed, refs, walked>>

(***************************************************************************)
(* check_counts / check_counts2                                            *)
(***************************************************************************)
CheckCountsInode ==
    /\ Running("check_counts") /\ Top.phase = "inodes" /\ Top.i <= INODES
    /\ \E m \in CountsInode(St, Top.i) : Install(m)
    /\ stack' = SetTop([Top EXCEPT !.i = @ + 1])
    /\ UNCHANGED <<Fixed, name_depth, pc, retcode, walked>>

CheckCountsZone ==
    /\ Running("check_counts")
    /\ \/ Top.phase = "zones" /\ Top.i < ZONES
          /\ \E m \in CountsZone(St, Top.i) : Install(m)
          /\ stack' = SetTop([Top EXCEPT !.i = @ + 1])
       \/ Top.phase = "inodes" /\ ~(Top.i <= INODES)
          /\ Install(St)
          /\ stack' = SetTop([Top EXCEPT !.phase = "zones", !.i = FIRSTZONE])
    /\ UNCHANGED <<Fixed, name_depth, pc, retcode, walked>>

CheckCountsReturn ==
    /\ Running("check_counts") /\ Top.phase = "zones" /\ ~(Top.i < ZONES)
    /\ stack' = Pop
    /\ UNCHANGED <<Fixed, dev, changed, errors_uncorrected, name_depth,
                   inode_map, zone_map, Inode, inode_count, zone_count, pc,
                   retcode, writes, name_use, asked, agreed, refs, walked>>

(***************************************************************************)
(* main() after check(): the write-back and the exit status.  A write()    *)
(* on the device may fail; it fails for certain when the device was opened *)
(* O_RDONLY (no -a, no -r).                                                *)
(***************************************************************************)
WriteOk == IF repair THEN BOOLEAN ELSE {FALSE}

\* main() calling write_super_block() whenever nothing changed, repair or not
AfterCheckAlwaysSuper ==
    /\ pc = "check" /\ stack = << >>
    /\ pc' = IF changed THEN "write_tables" ELSE "write_super_block"
    /\ UNCHANGED <<Fixed, dev, changed, errors_uncorrected, name_depth,
                   inode_map, zone_map, Inode, inode_count, zone_count, stack,
                   retcode, writes, name_use, asked, agreed, refs, walked>>

\* main() calling write_tables() in repair mode whether changed is set or not
AfterCheckTablesOnRepair ==
    /\ pc = "check" /\ stack = << >>
    /\ pc' = IF changed \/ repair THEN "write_tables" ELSE "return"
    /\ UNCHANGED <<Fixed, dev, changed, errors_uncorrected, name_depth,
                   inode_map, zone_map, Inode, inode_count, zone_count, stack,
                   retcode, writes, name_use, asked, agreed, refs, walked>>

AfterCheck ==
    /\ pc = "check" /\ stack = << >>
    /\ pc' = IF changed THEN "write_tables"
             ELSE IF repair THEN "write_super_block" ELSE "return"
    /\ UNCHANGED <<Fixed, dev, changed, errors_uncorrected, name_depth,
                   inode_map, zone_map, Inode, inode_count, zone_count, stack,
                   retcode, writes, name_use, asked, agreed, refs, walked>>

\* write_super_block assigning s_state where it has |= and &= ~
SuperStateAssigned(state, errors) ==
    IF errors THEN MINIX_VALID_FS + MINIX_ERROR_FS ELSE MINIX_VALID_FS

\* write_super_block without its else branch, which clears MINIX_ERROR_FS
SuperStateKeepsError(state, errors) ==
    IF errors THEN OrFlag(OrFlag(state, MINIX_VALID_FS), MINIX_ERROR_FS)
    ELSE OrFlag(state, MINIX_VALID_FS)

\* s_state as write_super_block leaves it
SuperState(state, errors) ==
    IF errors THEN OrFlag(OrFlag(state, MINIX_VALID_FS), MINIX_ERROR_FS)
    ELSE ClrFlag(OrFlag(state, MINIX_VALID_FS), MINIX_ERROR_FS)

write_super_block ==
    /\ pc \in {"write_tables", "write_super_block"}
    /\ Super' = [Super EXCEPT !.s_state = SuperState(@, errors_uncorrected)]
    /\ \E ok \in WriteOk :
          IF ok
          THEN /\ dev' = [dev EXCEPT !.super = Super']
               /\ writes' = Append(writes, [what |-> "super", nr |-> 1])
               /\ pc' = IF pc = "write_tables" THEN "write_imap" ELSE "return"
               /\ UNCHANGED <<retcode, stack>>
          ELSE Die /\ UNCHANGED <<dev, writes>>
    /\ UNCHANGED <<argv, repair, automatic, warn_mode, force, dirsize, namelen,
                   version2, run, v1_run, dev0, changed, errors_uncorrected,
                   name_depth, inode_map, zone_map, Inode, inode_count,
                   zone_count, name_use, asked, agreed, refs, walked>>

\* write_tables() after write_super_block(): the three tables, in turn
write_tables ==
    /\ pc \in {"write_imap", "write_zmap", "write_inodes"}
    /\ \E ok \in WriteOk :
          IF ok
          THEN /\ CASE pc = "write_imap" ->
                        /\ dev' = [dev EXCEPT !.imap = inode_map]
                        /\ writes' = Append(writes, [what |-> "imap", nr |-> 2])
                        /\ pc' = "write_zmap"
                    [] pc = "write_zmap" ->
                        /\ dev' = [dev EXCEPT !.zmap = zone_map]
                        /\ writes' = Append(writes, [what |-> "zmap", nr |-> 2 + IMAPS])
                        /\ pc' = "write_inodes"
                    [] pc = "write_inodes" ->
                        /\ dev' = [dev EXCEPT !.inodes = Inode]
                        /\ writes' = Append(writes,
                                        [what |-> "inodes", nr |-> 2 + IMAPS + ZMAPS])
                        /\ pc' = "return"
               /\ UNCHANGED <<retcode, stack>>
          ELSE Die /\ UNCHANGED <<dev, writes>>
    /\ UNCHANGED <<Fixed, changed, errors_uncorrected, name_depth, inode_map,
                   zone_map, Inode, inode_count, zone_count, name_use, asked, agreed, refs,
                   walked>>

\* the status main() returns
ExitStatus(chg, errors) == (IF chg THEN 3 ELSE 0) + (IF errors THEN 4 ELSE 0)

Return ==
    /\ pc = "return"
    /\ Leave(ExitStatus(changed, errors_uncorrected))
    /\ UNCHANGED <<Fixed, dev, changed, errors_uncorrected, name_depth,
                   inode_map, zone_map, Inode, inode_count, zone_count,
                   writes, name_use, asked, agreed, refs, walked>>

(***************************************************************************)
(* The same command line once more, on the device the first run left       *)
(* (a run that wrote nothing would only be repeated).                      *)
(***************************************************************************)
Rerun ==
    /\ pc = "exit" /\ run = 1 /\ retcode # 8 /\ writes # << >>
    /\ run' = 2 /\ v1_run' = v1_run
    /\ dev' = dev /\ argv' = argv /\ dev0' = dev
    /\ repair' = FALSE /\ automatic' = FALSE /\ warn_mode' = FALSE
    /\ force' = TRUE
    /\ changed' = FALSE /\ errors_uncorrected' = FALSE
    /\ dirsize' = 16 /\ namelen' = 14 /\ version2' = FALSE
    /\ name_depth' = 0
    /\ Super' = [ s_ninodes |-> 0, s_nzones |-> 0, s_imap_blocks |-> 0,
                  s_zmap_blocks |-> 0, s_firstdatazone |-> 0,
                  s_log_zone_size |-> 0, s_magic |-> 0, s_state |-> 0,
                  s_zones |-> 0 ]
    /\ inode_map' = NoTable /\ zone_map' = NoTable /\ Inode' = NoTable
    /\ inode_count' = NoTable /\ zone_count' = NoTable
    /\ pc' = "args" /\ stack' = << >> /\ retcode' = -1
    /\ writes' = << >> /\ asked' = FALSE /\ agreed' = FALSE
    /\ name_use' = [rd |-> 0, wr |-> 0]
    /\ refs' = NoTable /\ walked' = NoTable

(***************************************************************************)
(* The same command line on the same file system in the v2 layout: the     *)
(* image the v1 run started from with the v2 magic of the same name length *)
(* and the tenth zone slot (triple indirect, unused) in every inode.       *)
(***************************************************************************)
V2Magic(magic) ==
    IF magic = MINIX_SUPER_MAGIC THEN MINIX2_SUPER_MAGIC ELSE MINIX2_SUPER_MAGIC2

AsV2(img) ==
    [img EXCEPT !.super.s_magic = V2Magic(@),
                !.inodes = [i \in DOMAIN @ |->
                    [@[i] EXCEPT !.i_zone =
                        [k \in 0..(NSlots(TRUE) - 1) |->
                            IF k \in DOMAIN @ THEN @[k] ELSE 0]]]]

\* the command lines whose runs are repeated on the v2 layout
TwinBundles == { <<>>, <<"a">>, <<"r">>, <<"a", "m">> }

Twin ==
    /\ pc = "exit" /\ run = 1 /\ retcode # 8
    /\ dev0.super.s_magic \in {MINIX_SUPER_MAGIC, MINIX_SUPER_MAGIC2}
    /\ argv \in TwinBundles
    /\ (repair /\ ~automatic) => ~agreed
    /\ run' = 3
    /\ v1_run' = [changed |-> changed, errors_uncorrected |-> errors_uncorrected,
                  retcode |-> retcode, agreed |-> agreed]
    /\ dev' = AsV2(dev0) /\ argv' = argv /\ dev0' = AsV2(dev0)
    /\ repair' = FALSE /\ automatic' = FALSE /\ warn_mode' = FALSE
    /\ force' = TRUE
    /\ changed' = FALSE /\ errors_uncorrected' = FALSE
    /\ dirsize' = 16 /\ namelen' = 14 /\ version2' = FALSE
    /\ name_depth' = 0
    /\ Super' = [ s_ninodes |-> 0, s_nzones |-> 0, s_imap_blocks |-> 0,
                  s_zmap_blocks |-> 0, s_firstdatazone |-> 0,
                  s_log_zone_size |-> 0, s_magic |-> 0, s_state |-> 0,
                  s_zones |-> 0 ]
    /\ inode_map' = NoTable /\ zone_map' = NoTable /\ Inode' = NoTable
    /\ inode_count' = NoTable /\ zone_count' = NoTable
    /\ pc' = "args" /\ stack' = << >> /\ retcode' = -1
    /\ writes' = << >> /\ asked' = FALSE /\ agreed' = FALSE
    /\ name_use' = [rd |-> 0, wr |-> 0]
    /\ refs' = NoTable /\ walked' = NoTable

Next ==
    \/ ParseArgs
    \/ OpenDevice
    \/ read_superblock
    \/ Gate
    \/ read_tables
    \/ check_root
    \/ check
    \/ CheckZonesEnter
    \/ CheckZonesDirect
    \/ CheckZonesIndirect
    \/ CheckZonesReturn
    \/ AddZoneIndStep
    \/ AddZoneIndReturn
    \/ RecursiveCheckEnter
    \/ CheckFile
    \/ RecursiveCheckReturn
    \/ CheckFileRecurse
    \/ CheckFileReturn
    \/ CheckCountsInode
    \/ CheckCountsZone
    \/ CheckCountsReturn
    \/ AfterCheck
    \/ write_super_block
    \/ write_tables
    \/ Return
    \/ Rerun
    \/ Twin

Spec == Init /\ [][Next]_vars

(***************************************************************************)
(* The vocabulary of the properties.                                       *)
(***************************************************************************)
Letters == { argv[k] : k \in DOMAIN argv }

\* main() has returned (no die)
Done == pc = "exit" /\ retcode # 8

\* the run started from the image with fault f planted, whatever its s_state
ImagesWith ==
    [ f \in Faults |->
        { Plant(BaseImage(magic, st), f) :
            magic \in {MINIX_SUPER_MAGIC, MINIX2_SUPER_MAGIC}, st \in 0..3 } ]

IsFixture(f) == run = 1 /\ dev0 \in ImagesWith[f]

SuperWritten == \E k \in DOMAIN writes : writes[k].what = "super"
OnlySuperWritten == \A k \in DOMAIN writes : writes[k].what = "super"

\* bitmaps, inode table and zones of the device are as the run found them
TablesUntouched ==
    /\ dev.zones = dev0.zones
    /\ dev.imap = dev0.imap
    /\ dev.zmap = dev0.zmap
    /\ dev.inodes = dev0.inodes

(***************************************************************************)
(* C1.  In a run without -a / -r (read-only mode) no block is ever written *)
(* to the device, neither during the traversal nor in the final flush, the *)
(* changed flag stays false, and once the checker has offered a repair     *)
(* (ask was called for a bad zone pointer, a bad inode number, a doubly    *)
(* used zone, a bitmap disagreement or a wrong link count) the process     *)
(* ends with exit code exactly 4.                                          *)
(***************************************************************************)
ReadOnlyWritesNothing ==
    ~repair =>
        /\ writes = << >>
        /\ dev = dev0
        /\ ~changed
        /\ (pc = "exit" /\ asked) => retcode = 4

ReadOnlyRunOnDoubleBookedZone ==
    /\ IsFixture("dup_zone")
    /\ ~repair /\ pc = "exit" /\ asked
    /\ retcode = 4 /\ writes = << >> /\ ~changed /\ dev = dev0

(***************************************************************************)
(* C2.  Gate: whenever the superblock read at the start has VALID_FS set   *)
(* and ERROR_FS clear and -f was not given, the run ends with exit code 0, *)
(* without traversing the file system and without any write, in every      *)
(* operator mode.                                                          *)
(***************************************************************************)
GateSkipsCleanImage ==
    ( /\ KnownMagic(Super.s_magic)          \* the superblock has been read
      /\ SuperblockOk(dev0.super)
      /\ IsClean(dev0.super.s_state)
      /\ "f" \notin Letters
      /\ pc # "gate" )
    => /\ pc = "exit" /\ retcode = 0
       /\ writes = << >>
       /\ inode_map = NoTable /\ refs = NoTable

(***************************************************************************)
(* C3.  Idempotence: after a first run with -a that completes without an   *)
(* I/O failure, a second run with the same flags (-m among them) on the    *)
(* image the first run left ends with the changed flag false.              *)
(***************************************************************************)
SecondRunChangesNothing ==
    (run = 2 /\ Done /\ repair /\ automatic /\ dev.bad = {}) => ~changed

(***************************************************************************)
(* C4.  Declined repairs.  As claimed: when every question is answered     *)
(* "no" (read-only mode, or -r with every answer N), the exit code has the *)
(* 4 bit set and no write at all reached the device, the final superblock  *)
(* write included.                                                         *)
(***************************************************************************)
DeclinedRunWritesNothing ==
    (Done /\ (~repair \/ ~automatic) /\ asked /\ ~agreed)
    => ((retcode \div 4) % 2 = 1 /\ writes = << >>)

(***************************************************************************)
(* C4, as the code has it.  When every question is answered "no", no zone, *)
(* bitmap or inode-table block is written and changed stays false at every *)
(* point of the run; the run ends with exit code exactly 4; in read-only   *)
(* mode nothing was written, and with -r exactly one write happened: the   *)
(* final superblock write, which records VALID_FS and ERROR_FS.            *)
(***************************************************************************)
DeclinedRunWritesOnlySuperblock ==
    ((~repair \/ ~automatic) /\ asked /\ ~agreed) =>
        /\ OnlySuperWritten
        /\ ~changed
        /\ TablesUntouched
        /\ Done =>
              /\ retcode = 4
              /\ writes = IF repair THEN << [what |-> "super", nr |-> 1] >>
                          ELSE << >>
              /\ repair => /\ HasFlag(dev.super.s_state, MINIX_VALID_FS)
                           /\ HasFlag(dev.super.s_state, MINIX_ERROR_FS)

InteractiveRunAllDeclined ==
    /\ Done /\ repair /\ ~automatic /\ asked /\ ~agreed
    /\ IsFixture("nlinks")
    /\ retcode = 4
    /\ writes = << [what |-> "super", nr |-> 1] >>
    /\ TablesUntouched

(***************************************************************************)
(* C5.  Every accepted repair applies the fix and sets changed.  In        *)
(* particular: an image whose only fault is a directory entry with an      *)
(* inode number above INODES, run with -a, ends with the entry zeroed on   *)
(* disk, changed set, errors_uncorrected clear and exit code 3.            *)
(***************************************************************************)
AcceptedRemoveSetsChanged ==
    (Done /\ repair /\ automatic /\ IsFixture("bad_ino")) =>
        /\ dev.zones[EntryZone(dev0, 1, 3)][EntryUnit(dev0, 3)].n = 0
        /\ changed
        /\ ~errors_uncorrected
        /\ retcode = 3

(***************************************************************************)
(* C6.  Double-booked zone: with -a, when a zone is reached by a second    *)
(* pointer (of another inode, of the same inode, or of an indirect block)  *)
(* the later pointer is cleared, so that no zone_count exceeds 1 at any    *)
(* point of the run and the zone's count is 1 at the end; the run sets     *)
(* changed and its exit code includes 3.                                   *)
(***************************************************************************)
DoubleBookedZoneCleared ==
    \A f \in {"dup_zone", "dup_self", "ind_dup"} :
        (repair /\ automatic /\ IsFixture(f)) =>
            /\ zone_count # NoTable =>
                    \A z \in DOMAIN zone_count : zone_count[z] <= 1
            /\ Done =>
                  /\ zone_count[IF f = "dup_zone" THEN SubZ ELSE FileZ] = 1
                  /\ changed
                  /\ retcode \in {3, 7}

(***************************************************************************)
(* C7.  Link counts: after a run with -a that completes, every inode whose *)
(* in-use bit is set on the device has, on the device, an i_nlinks equal   *)
(* to the number of directory entries that resolved to it during the       *)
(* traversal from the root (the number inode_count holds, below the        *)
(* saturation at 255); and the run on the image whose inode 3 has i_nlinks *)
(* 3 with one referring entry ends with i_nlinks 1 and exit code 3.        *)
(***************************************************************************)
LinkCountsMatchReferences ==
    (Done /\ repair /\ automatic /\ refs # NoTable) =>
        /\ \A i \in 1..INODES :
              dev.imap[i] # 0 =>
                  /\ inode_count[i] = refs[i]
                  /\ refs[i] < 255 => dev.inodes[i].i_nlinks = refs[i]
        /\ IsFixture("nlinks") => (dev.inodes[3].i_nlinks = 1 /\ retcode = 3)

LinkCountRewritten ==
    /\ Done /\ repair /\ automatic
    /\ IsFixture("nlinks")
    /\ dev0.inodes[3].i_nlinks = 3
    /\ refs[3] = 1
    /\ dev.inodes[3].i_nlinks = 1
    /\ retcode = 3

(***************************************************************************)
(* C8.  State flag: every superblock the checker writes carries VALID_FS,  *)
(* and ERROR_FS exactly when an uncorrected error was recorded; hence      *)
(* after a completed run with -a and no uncorrected error the s_state on   *)
(* the device has VALID_FS set and ERROR_FS clear.                         *)
(***************************************************************************)
StateFlagConverges ==
    /\ SuperWritten =>
          /\ HasFlag(dev.super.s_state, MINIX_VALID_FS)
          /\ HasFlag(dev.super.s_state, MINIX_ERROR_FS) <=> errors_uncorrected
    /\ (Done /\ repair /\ automatic /\ ~errors_uncorrected) =>
          (SuperWritten /\ IsClean(dev.super.s_state))

ErrorFlagClearedByRepair ==
    /\ Done /\ repair /\ automatic /\ ~errors_uncorrected /\ changed
    /\ HasFlag(dev0.super.s_state, MINIX_ERROR_FS)
    /\ IsClean(dev.super.s_state)

(***************************************************************************)
(* C9.  Exit code: main() returns 0, plus 3 if changes were written to the *)
(* image, plus 4 if an uncorrected error was recorded, so a process ends   *)
(* with 0, 3, 4 or 7, or with 8 after die(); and 0 is returned only when   *)
(* the bitmaps, the inode table and the zones of the image were left as    *)
(* they were.                                                              *)
(***************************************************************************)
ExitCodeTellsChange ==
    pc = "exit" =>
        /\ retcode \in {0, 3, 4, 7, 8}
        /\ retcode # 8 => retcode = ExitStatus(changed, errors_uncorrected)
        /\ retcode = 0 => TablesUntouched

(***************************************************************************)
(* C10.  Forced check of a consistent v2 image with -f alone.  As claimed: *)
(* the run traverses the whole tree, exits with 0 and rewrites the         *)
(* superblock with VALID_FS set.                                           *)
(***************************************************************************)
ConsistentImages ==
    ImagesWith["none"] \cup ImagesWith["hardlink"] \cup ImagesWith["dind"]
        \cup { BaseImage(magic, st) :
                magic \in {MINIX_SUPER_MAGIC2, MINIX2_SUPER_MAGIC2}, st \in 0..3 }

ConsistentV2 ==
    run = 1 /\ dev0 \in ConsistentImages /\ IsV2Magic(dev0.super.s_magic)

\* every in-use inode was reached as often as it has links and had its zones
\* walked once, and every zone in use was counted once
FullTraversal ==
    /\ refs # NoTable
    /\ \A i \in 1..INODES :
          dev0.imap[i] # 0 => refs[i] = dev0.inodes[i].i_nlinks /\ walked[i] = 1
    /\ \A z \in FIRSTZONE..(ZONES - 1) : zone_count[z] = dev0.zmap[z - FIRSTZONE + 1]

DirsOnStack ==
    { k \in DOMAIN stack : stack[k].fn = "recursive_check" }

CyclicTraversalTerminates ==
    (IsFixture("loop_self") \/ IsFixture("loop_up")) =>
        \A j, k \in DirsOnStack : j < k => stack[j].ino # stack[k].ino

(***************************************************************************)
(* C12.  Conservation: on a consistent image (the fault-free image, or the *)
(* one with a correct hard link), once the traversal is over every zone z  *)
(* of FIRSTZONE .. ZONES-1 has zone_count[z] in {0, 1} and zone_count[z]   *)
(* equal to zone_in_use(z); no question is asked at any point of the run   *)
(* and nothing changes: changed stays false and bitmaps, inode table and   *)
(* zones stay what they were, in memory and on the device.                 *)
(***************************************************************************)
ConsistentImage == run = 1 /\ dev0 \in ConsistentImages

\* check_zones(ROOT_INO) and recursive_check(ROOT_INO) have returned
TraversalOver ==
    /\ zone_count # NoTable
    /\ pc \notin {"check_root", "check_begin"}
    /\ pc = "check" => (stack = << >> \/ Top.fn = "check_counts")

SameButStateFlags(sb, sb0) ==
    /\ sb = [sb0 EXCEPT !.s_state = sb.s_state]
    /\ sb.s_state \div 4 = sb0.s_state \div 4

SuperblockRoundTrip ==
    /\ SameButStateFlags(dev.super, dev0.super)
    /\ Super.s_magic # 0 => SameButStateFlags(Super, dev0.super)

SuperblockRewrittenKeepsOtherBits ==
    /\ Done /\ SuperWritten
    /\ dev0.super.s_state = 4 + MINIX_ERROR_FS
    /\ dev.super.s_state = 4 + MINIX_VALID_FS
    /\ SameButStateFlags(dev.super, dev0.super)

(***************************************************************************)
(* C14.  The operator oracle.  ask answers "no" to every question in       *)
(* read-only mode and the caller's default with -a; with -r it answers yes *)
(* on Y/y, no on N/n, the default on space, newline and end of input, and  *)
(* skips every other character.  In all three modes errors_uncorrected is  *)
(* set on return exactly when the answer is "no" and is left as it was on  *)
(* "yes"; ask changes neither changed nor the image nor the tables.        *)
(***************************************************************************)
Keys == {"y", "Y", "n", "N", " ", "\n", "x", "EOF"}
Deciding == Keys \ {"x"}
KeySeqs == UNION { [1..n -> Keys] : n \in 0..MaxKeys }

\* the answer the claim gives for what was typed: the first deciding key
\* decides, and input that ends before one counts as end of input
Answer(def, keys) ==
    LET at == { k \in DOMAIN keys : keys[k] \in Deciding }
    IN  IF at = {} THEN def
        ELSE LET key == keys[CHOOSE k \in at : \A j \in at : k <= j]
             IN  CASE key \in {"y", "Y"} -> TRUE
                   [] key \in {"n", "N"} -> FALSE
                   [] OTHER -> def

AskKeysAsClaimed ==
    \A def \in BOOLEAN, keys \in KeySeqs :
        AskKeys(def, keys) = [ret |-> Answer(def, keys), err |-> ~Answer(def, keys)]

AskIsTheOracle ==
    /\ AskKeysAsClaimed
    /\ \A def \in BOOLEAN :
          /\ ~repair => { a.ans : a \in ask(St, def) } = {FALSE}
          /\ (repair /\ automatic) => { a.ans : a \in ask(St, def) } = {def}
          /\ (repair /\ ~automatic) =>
                { a.ans : a \in ask(St, def) } = { Answer(def, keys) : keys \in Typed }
          /\ \A a \in ask(St, def) :
                /\ a.m.errors_uncorrected = (errors_uncorrected \/ ~a.ans)
                /\ a.m.asked /\ a.m.agreed = (agreed \/ a.ans)
                /\ [a.m EXCEPT !.errors_uncorrected = errors_uncorrected,
                               !.asked = asked, !.agreed = agreed] = St

QuestionAnsweredYesAtTheTerminal ==
    /\ repair /\ ~automatic
    /\ IsFixture("nlinks")
    /\ asked /\ agreed /\ ~errors_uncorrected
    /\ Inode[3].i_nlinks = 1 /\ changed

(***************************************************************************)
(* C15.  Block map of a v2 inode: map_block2 resolves block n through the  *)
(* direct slot n when n < 7, through entry n-7 of the single indirect      *)
(* block i_zone[7] when n < 7+F, through the double indirect block         *)
(* i_zone[8] (entry (n-7-F)/F, then entry (n-7-F)%F) when n < 7+F+F*F, and *)
(* through the triple indirect block i_zone[9] beyond; every index into an *)
(* indirect block is below the fan-out F.  Stated for the file /a/b of the *)
(* image with a double indirect block, all of whose zone numbers are       *)
(* valid, and for every n up to the last block a triple indirect block     *)
(* reaches.                                                                *)
(***************************************************************************)
LastBlknr == 7 + Fanout + Fanout * Fanout + Fanout * Fanout * Fanout - 1

\* the route of the claim
ClaimedRoute2(n, F) ==
    IF n < 7 THEN [slot |-> n, path |-> << >>]
    ELSE IF n < 7 + F THEN [slot |-> 7, path |-> << n - 7 >>]
    ELSE IF n < 7 + F + F * F
    THEN [slot |-> 8, path |-> << (n - 7 - F) \div F, (n - 7 - F) % F >>]
    ELSE LET t == n - 7 - F - F * F
         IN  [slot |-> 9, path |-> << t \div (F * F), (t \div F) % F, t % F >>]

\* the zone a route ends at, block 0 reading as zeros
RECURSIVE Follow(_, _)
Follow(zone, path) ==
    IF path = << >> THEN zone
    ELSE Follow(IF zone = 0 THEN 0 ELSE dev.zones[zone][Head(path)].n, Tail(path))

MapBlock2Layout ==
    (IsFixture("dind") /\ version2 /\ pc = "check_root") =>
        \A n \in 0..LastBlknr :
            /\ Route2(n, Fanout) = ClaimedRoute2(n, Fanout)
            /\ \A k \in DOMAIN Route2(n, Fanout).path :
                    Route2(n, Fanout).path[k] < Fanout
            /\ { r.ret : r \in map_block2(St, 3, n, Fanout) }
                    = { Follow(Inode[3].i_zone[ClaimedRoute2(n, Fanout).slot],
                               ClaimedRoute2(n, Fanout).path) }

(***************************************************************************)
(* C16.  The zones of an inode are walked at most once in a run, the root  *)
(* included, whose zones check walks before the traversal starts: no zone  *)
(* pointer of an inode is handed to add_zone a second time.                *)
(***************************************************************************)
ZonesWalkedOnce ==
    walked # NoTable => \A i \in 1..INODES : walked[i] <= 1

(***************************************************************************)
(* C17.  write_block(nr, addr) with nr = 0 or nr outside FIRSTZONE..ZONES-1*)
(* writes nothing to the device and raises errors_uncorrected, in both     *)
(* cases; a write that the device refuses raises errors_uncorrected, and   *)
(* is not tried again.  Stated of write_block applied, in every state with *)
(* the tables loaded, to every zone number up to one past the device.      *)
(***************************************************************************)
Dropped(nr) == nr = 0 \/ nr < FIRSTZONE \/ nr >= ZONES
Refused(nr) == ~Dropped(nr) /\ ~(repair /\ Readable(dev, nr))

WriteBlockDropsAndFlags ==
    inode_map # NoTable =>
        \A nr \in 0..(ZONES + 1) :
            (Dropped(nr) \/ Refused(nr)) =>
                LET w == write_block(St, nr, ZeroBlock)
                IN  /\ w.dev = dev /\ w.writes = writes
                    /\ w.errors_uncorrected

(***************************************************************************)
(* C18.  Atomic repair: at every point of a run at which the superblock on *)
(* the device, as this run wrote it, has MINIX_VALID_FS set and            *)
(* MINIX_ERROR_FS clear, the inode bitmap, the zone bitmap and the inode   *)
(* table on the device hold the repaired contents; in particular after a   *)
(* write-back that a failed write has cut short.                           *)
(***************************************************************************)
RepairIsAtomic ==
    (SuperWritten /\ IsClean(dev.super.s_state)) =>
        /\ dev.imap = inode_map
        /\ dev.zmap = zone_map
        /\ dev.inodes = Inode

(***************************************************************************)
(* C19.  The write-back at the end of main: with changed set, the          *)
(* superblock, the inode bitmap, the zone bitmap and the inode table are   *)
(* written, each once and in this order, at blocks 1, 2, 2+IMAPS and       *)
(* 2+IMAPS+ZMAPS; with changed clear in a repair run (-a or -r), the       *)
(* superblock alone; otherwise nothing.  Nothing but zones is written      *)
(* before the write-back, and no zone after it has begun.                  *)
(***************************************************************************)
IsTableWrite(w) == w.what # "zone"
Flushed == SelectSeq(writes, IsTableWrite)
SuperWrite == [what |-> "super", nr |-> 1]
FullFlush ==
    << SuperWrite,
       [what |-> "imap", nr |-> 2],
       [what |-> "zmap", nr |-> 2 + IMAPS],
       [what |-> "inodes", nr |-> 2 + IMAPS + ZMAPS] >>
InWriteBack ==
    pc \in {"write_tables", "write_super_block", "write_imap", "write_zmap",
            "write_inodes", "return", "exit"}

FinalFlush ==
    /\ ~InWriteBack => Flushed = << >>
    /\ \A j, k \in DOMAIN writes :
          (j < k /\ IsTableWrite(writes[j])) => IsTableWrite(writes[k])
    /\ Done =>
          Flushed = IF changed THEN FullFlush
                    ELSE IF repair THEN << SuperWrite >>
                    ELSE << >>

TablesFlushedInOrder ==
    /\ Done /\ changed
    /\ writes = FullFlush
    /\ dev.inodes = Inode /\ dev.inodes # dev0.inodes

(***************************************************************************)
(* C20.  The conditions mfsck cannot repair: a directory whose slot 0 is   *)
(* not "." or whose slot 1 is not "..", a directory shorter than two       *)
(* entries, an indirect block that cannot be read, and a path of more      *)
(* components than name_list holds (MAX_DEPTH).  Each sets                 *)
(* errors_uncorrected, so that the exit status has the 4 bit; none is      *)
(* offered for repair, no question being asked during the traversal; and   *)
(* the traversal goes on to check_counts.                                  *)
(***************************************************************************)
Unrepairables == {"dot_gone", "no_dotdot", "small_dir", "bad_ind"}
Traversing == pc = "check" /\ stack # << >> /\ Top.fn # "check_counts"

UnrepairableIsFlagged ==
    /\ \A f \in Unrepairables :
          IsFixture(f) =>
              /\ Traversing => ~asked
              /\ TraversalOver => errors_uncorrected
              /\ Done => HasFlag(retcode, 4)
    /\ name_depth > MAX_DEPTH => errors_uncorrected

(***************************************************************************)
(* C21.  A zone that check_counts only reports: zone_count[z] # 0 and not  *)
(* equal to zone_in_use(z), that is a zone counted twice or more, or       *)
(* counted while its bit is clear.  Whenever check_counts comes to such a  *)
(* zone errors_uncorrected is set, in every mode, and the exit status of   *)
(* the run has the 4 bit.                                                  *)
(***************************************************************************)
ReportedZone(z) ==
    /\ zone_count[z] # 0
    /\ zone_count[z] # (IF zone_in_use(St, z) THEN 1 ELSE 0)

ReportedZoneIsUncorrectable ==
    /\ ( /\ Running("check_counts") /\ Top.phase = "zones"
         /\ Top.i \in FIRSTZONE..(ZONES - 1)
         /\ ReportedZone(Top.i) ) => errors_uncorrected
    /\ ( /\ Done /\ zone_count # NoTable
         /\ \E z \in FIRSTZONE..(ZONES - 1) : ReportedZone(z) ) => HasFlag(retcode, 4)

ZoneCountedTwiceReported ==
    /\ Done /\ zone_count # NoTable
    /\ \E z \in FIRSTZONE..(ZONES - 1) : zone_count[z] = 2 /\ zone_in_use(St, z)
    /\ retcode = 4

(***************************************************************************)
(* C22.  After a run with -a that comes to its end, in the tables in       *)
(* memory and on the device: the bit of inode i is set exactly when        *)
(* inode_count[i] >= 1, for every i in 1..INODES, and the bit of zone z is *)
(* set exactly when zone_count[z] >= 1, for every zone of                  *)
(* FIRSTZONE..ZONES-1 that can be read.  A set bit so always belongs to an *)
(* inode or zone that the traversal reached.                               *)
(***************************************************************************)
BitmapsMatchCounts ==
    (Done /\ automatic /\ zone_count # NoTable) =>
        /\ \A i \in 1..INODES : inode_in_use(St, i) <=> inode_count[i] >= 1
        /\ \A z \in FIRSTZONE..(ZONES - 1) :
              Readable(dev, z) => (zone_in_use(St, z) <=> zone_count[z] >= 1)
        /\ dev.imap = inode_map /\ dev.zmap = zone_map

StaleZoneBitCleared ==
    /\ Done /\ automatic /\ IsFixture("zbit_set")
    /\ zone_count[FreeZ] = 0 /\ ~zone_in_use(St, FreeZ)
    /\ dev.zmap = zone_map /\ dev.zmap # dev0.zmap

(***************************************************************************)
(* C23.  Zone numbers stay in range on every image: check_zone_nr,         *)
(* add_zone and map_block / map_block2 return 0 or a zone of               *)
(* FIRSTZONE..ZONES-1, whatever number they are given; zone_count and the  *)
(* zone bitmap are touched at zones of that range only, inode_count at     *)
(* inodes 1..INODES only; and every block written during the traversal is  *)
(* a zone of that range.                                                   *)
(***************************************************************************)
InRange(z) == z = 0 \/ z \in FIRSTZONE..(ZONES - 1)
MapBlock(m, ino, n) ==
    IF version2 THEN map_block2(m, ino, n, Fanout) ELSE map_block(m, ino, n, Fanout)

\* the counts are all zero, or the traversal has just filled them
CountsFresh ==
    \/ pc = "check_root"
    \/ Running("check_counts") /\ Top.phase = "inodes" /\ Top.i = 1

ZoneNumbersInRange ==
    /\ (zone_count # NoTable /\ CountsFresh) =>
          \A nr \in 0..(ZONES + 1) :
              /\ \A c \in check_zone_nr(St, nr) : InRange(c.ret)
              /\ \A c \in add_zone(St, nr) : InRange(c.ret)
    /\ zone_count # NoTable =>
          /\ DOMAIN zone_count = 0..(ZONES - 1)
          /\ \A z \in 0..(FIRSTZONE - 1) : zone_count[z] = 0
          /\ DOMAIN inode_count = 0..INODES /\ inode_count[0] = 0
          /\ DOMAIN zone_map = DOMAIN dev0.zmap /\ zone_map[0] = dev0.zmap[0]
    /\ pc = "check_root" =>
          \A ino \in 1..INODES, n \in 0..LastBlknr :
              \A r \in MapBlock(St, ino, n) : InRange(r.ret)
    /\ \A k \in DOMAIN writes :
          writes[k].what = "zone" =>
              writes[k].nr \in FIRSTZONE..(ZONES - 1)

OutOfRangeZoneRemoved ==
    /\ Done /\ IsFixture("ind_zone_hi")
    /\ \E k \in DOMAIN writes : writes[k] = [what |-> "zone", nr |-> IndZ]
    /\ dev0.zones[IndZ][1].n = ZONES /\ dev.zones[IndZ][1].n = 0
    /\ \A z \in FIRSTZONE..(ZONES - 1) : zone_count[z] <= 1

(***************************************************************************)
(* C24.  The directory stride: dirsize is the first of the offsets 16, 32, *)
(* 64, ... below BLOCK_SIZE at which the first block of the root holds the *)
(* name "..", and namelen is dirsize - 2; when there is no such offset,    *)
(* dirsize is 16 and namelen 14, whatever the magic of the superblock.     *)
(***************************************************************************)
StrideOffsets == { s \in {16, 32, 64, 128, 256, 512} : s < BLOCK_SIZE }
RootFirstBlock == read_block(St, Inode[ROOT_INO].i_zone[0]).blk
DotDotAt == { s \in StrideOffsets : RootFirstBlock[s \div UNIT].name = ".." }
FirstOf(S) == CHOOSE s \in S : \A t \in S : s <= t

StrideIsFirstDotDot ==
    pc = "check_root" =>
        /\ dirsize = IF DotDotAt = {} THEN 16 ELSE FirstOf(DotDotAt)
        /\ namelen = dirsize - 2

(***************************************************************************)
(* C25.  inode_count[i] and zone_count[z] are 8-bit counters that          *)
(* saturate: an increment at 255 leaves 255, any other adds one; the       *)
(* increment of inode_count at 255 sets errors_uncorrected, no other       *)
(* increment touches it; and from one step of a run to the next no counter *)
(* decreases, nor returns to 0.                                            *)
(***************************************************************************)
Saturated(c) == IF c = 255 THEN 255 ELSE c + 1

IncrementsSaturate ==
    (zone_count # NoTable /\ CountsFresh) =>
        \A c \in 0..255 :
            /\ \A nr \in 1..INODES :
                  LET m == GetInodeCount([St EXCEPT !.inode_count[nr] = c], nr)
                  IN  /\ m.inode_count[nr] = Saturated(c)
                      /\ m.errors_uncorrected = (errors_uncorrected \/ c = 255)
            /\ \A z \in FIRSTZONE..(ZONES - 1) :
                  LET m == AddZoneCount([St EXCEPT !.zone_count[z] = c], z)
                  IN  /\ m.zone_count[z] = Saturated(c)
                      /\ m.errors_uncorrected = errors_uncorrected

CountersGrow ==
    (zone_count # NoTable /\ zone_count' # NoTable) =>
        /\ \A i \in 1..INODES :
              /\ inode_count'[i] >= inode_count[i]
              /\ inode_count'[i] \in {inode_count[i], Saturated(inode_count[i])}
        /\ \A z \in 0..(ZONES - 1) :
              /\ zone_count'[z] >= zone_count[z]
              /\ zone_count'[z] \in {zone_count[z], Saturated(zone_count[z])}

CountersSaturate == []IncrementsSaturate /\ [][CountersGrow]_vars

InodeCountHeldAt255 ==
    \E i \in DOMAIN inode_count :
        inode_count[i] = 255 /\ refs[i] > 255 /\ errors_uncorrected

(***************************************************************************)
(* C26.  The name stack: at every depth of the traversal, depths beyond    *)
(* MAX_DEPTH included, no slot of name_list at index MAX_DEPTH or above is *)
(* written or read (a push beyond the limit is left out, the path is       *)
(* rendered up to MAX_DEPTH components), and check_file returns with       *)
(* name_depth as it found it: name_depth is the number of calls of         *)
(* check_file that are under way past their second push.                   *)
(***************************************************************************)
FilesUnderWay ==
    { k \in DOMAIN stack : stack[k].fn \in {"check_file", "check_file_end"} }

NameStackBounded ==
    /\ name_use.wr <= MAX_DEPTH
    /\ name_use.rd <= MAX_DEPTH
    /\ pc = "check" => name_depth = Cardinality(FilesUnderWay)

(***************************************************************************)
(* C27.  check_file goes on to an entry's inode, and into it when it is a  *)
(* directory, only for an entry that is not the "." of slot 0 nor the ".." *)
(* of slot 1 of its directory (those are counted and left); and the zones  *)
(* of every directory that recursive_check is reading have been walked by  *)
(* check_zones before its first entry is visited.                          *)
(***************************************************************************)
\* the entry at `offset` of directory dir, as the run found it on the device
EntryAt(dir, offset) ==
    LET zone == dev0.inodes[dir].i_zone[offset \div BLOCK_SIZE]
    IN  IF zone \in DOMAIN dev0.zones
        THEN dev0.zones[zone][(offset % BLOCK_SIZE) \div UNIT]
        ELSE ZeroCell

\* frame k is a check_file under way: the entry it was called for
FollowedEntry(k) ==
    /\ k > 1 /\ stack[k - 1].fn = "recursive_check"
    /\ LET off == stack[k - 1].offset - dirsize
           e == EntryAt(stack[k - 1].ino, off)
       IN  /\ e.n = stack[k].ino
           /\ ~(off = 0 /\ e.name = ".")
           /\ ~(off = dirsize /\ e.name = "..")

RecursionRule ==
    \A k \in DOMAIN stack :
        /\ stack[k].fn \in {"check_file", "check_file_end"} => FollowedEntry(k)
        /\ stack[k].fn = "recursive_check" =>
              /\ \/ stack[k - 1].fn = "check_counts" /\ stack[k].ino = ROOT_INO
                 \/ stack[k - 1] = [fn |-> "check_file_end", ino |-> stack[k].ino]
              /\ stack[k].entered => S_ISDIR(Inode[stack[k].ino].i_mode)

ZonesBeforeEntries ==
    \A k \in DOMAIN stack :
        (stack[k].fn = "recursive_check" /\ stack[k].entered) =>
            walked[stack[k].ino] >= 1

RecursionRuleAndOrder == RecursionRule /\ ZonesBeforeEntries

(***************************************************************************)
(* C28.  Superblock validation is fatal and free of side effects: when the *)
(* superblock the run starts from has a magic that is none of the four, a  *)
(* log zone size other than 0, or fewer bitmap blocks than INODES + 1      *)
(* inode bits or ZONES - FIRSTZONE + 1 zone bits need, the run never gets  *)
(* past read_superblock: no table is read, nothing is traversed, nothing   *)
(* is written, and the process ends with status 8.  When the superblock    *)
(* passes and the root inode is not a directory, the run never gets past   *)
(* check_root, writes nothing and ends with status 8.                      *)
(***************************************************************************)
\* the superblocks the claim names, in the claim's terms
BadSuperblock(sb) ==
    \/ sb.s_magic \notin {4991, 5007, 9320, 9336}
    \/ sb.s_log_zone_size # 0
    \/ sb.s_imap_blocks * BLOCK_SIZE * 8 < sb.s_ninodes + 1
    \/ sb.s_zmap_blocks * BLOCK_SIZE * 8 <
           SbZones(sb, sb.s_magic \in {9320, 9336}) - sb.s_firstdatazone + 1

NothingRead ==
    /\ inode_map = NoTable /\ zone_map = NoTable /\ Inode = NoTable
    /\ inode_count = NoTable /\ zone_count = NoTable

NothingDone ==
    /\ stack = << >> /\ refs \in {NoTable, [i \in 1..INODES |-> 0]}
    /\ walked \in {NoTable, [i \in 1..INODES |-> 0]}
    /\ writes = << >> /\ dev = dev0 /\ ~asked /\ ~changed
    /\ pc = "exit" => retcode = 8

RootIsNoDirectory == ~S_ISDIR(dev0.inodes[ROOT_INO].i_mode)

SuperblockValidationIsFatal ==
    /\ BadSuperblock(dev0.super) =>
          /\ pc \in {"args", "open", "read_superblock", "exit"}
          /\ NothingRead /\ NothingDone
    /\ (~BadSuperblock(dev0.super) /\ RootIsNoDirectory) =>
          /\ pc \in {"args", "open", "read_superblock", "gate", "read_tables",
                     "check_root", "exit"}
          /\ NothingDone

\* a repairing run has ended at the superblock with a zone size it rejects
BadZoneSizeAborted ==
    /\ pc = "exit" /\ retcode = 8 /\ repair
    /\ Super = dev0.super /\ Super.s_log_zone_size # 0
    /\ KnownMagic(Super.s_magic) /\ NothingRead

\* a repairing run has ended at a root inode that is a regular file
RootNotDirAborted ==
    /\ pc = "exit" /\ retcode = 8 /\ repair
    /\ Inode # NoTable /\ ~S_ISDIR(Inode[ROOT_INO].i_mode) /\ writes = << >>

(***************************************************************************)
(* C29.  The v1 path and the v2 path agree: a run on a file system in the  *)
(* v2 layout that comes to its end, with the command line and the answers  *)
(* of the run on the same file system in the v1 layout (no question in     *)
(* read-only and automatic runs, every question declined in interactive    *)
(* ones), ends with the same changed flag, the same errors_uncorrected     *)
(* flag and the same exit status; and a read-only run, of either variant,  *)
(* in which a directory entry names an inode whose bit is clear in the     *)
(* inode bitmap ends with the 4 bit in its exit status.                    *)
(***************************************************************************)
SameAnswers == (repair /\ ~automatic) => (~agreed /\ ~v1_run.agreed)

\* get_inode met an entry for an inode the image marks unused
UnusedInodeNamed ==
    refs # NoTable /\ \E i \in 1..INODES : refs[i] >= 1 /\ dev0.imap[i] = 0

VariantsAgree ==
    /\ (run = 3 /\ Done /\ SameAnswers) =>
          /\ changed = v1_run.changed
          /\ errors_uncorrected = v1_run.errors_uncorrected
          /\ retcode = v1_run.retcode
    /\ (Done /\ ~repair /\ UnusedInodeNamed) => (retcode \div 4) % 2 = 1

\* the read-only v2 run on the image with a named inode marked unused has
\* ended as the v1 run did, with status 4
UnusedInodeFlaggedInV2 ==
    /\ run = 3 /\ Done /\ ~repair /\ version2
    /\ UnusedInodeNamed /\ retcode = 4 /\ v1_run.retcode = 4

====
